---- MODULE Spec2Model ----
(***************************************************************************)
(* Edgetainer SSH tunnel subsystem: the server tunnel endpoint            *)
(* (internal/server/ssh: PortManager, Server, ConnectionHandler) modelled *)
(* as a state machine of its goroutines.                                  *)
(***************************************************************************)
EXTENDS Integers, Sequences, FiniteSets, TLC

(***************************************************************************)
(* Bounds of the model                                                     *)
(***************************************************************************)
MaxConns == 2
MaxForwards == 2
MaxFwdConns == 1
MaxShutdownCalls == 2

ConnIds == 1..MaxConns
ForwardIds == 1..MaxForwards
FwdConnIds == 1..MaxFwdConns
ShutdownIds == 1..MaxShutdownCalls

\* consecutive failed connect attempts of the device client that are followed
MaxFails == 7

\* handleConnection goroutines of the device client that are told apart
MaxHandlers == 2

\* ticker periods an unanswered keepalive is watched for
MaxWait == 2

\* heartbeat timestamps that are told apart
MaxTimestamp == 3

\* SendCommand calls that are followed
MaxCommands == 2

\* bytes an external client writes to one forwarded connection
MaxBytes == 2
MaxStarts == 5

(***************************************************************************)
(* Configuration: the Port Broker range (ssh.start_port, ssh.end_port)     *)
(***************************************************************************)
startPort == 10000
endPort == 10003

\* remote ports a device names in the bind-port field of tcpip-forward
BindPorts == {22}

\* AllocatePort's port value when it returns an error
NoPort == 0

\* the device client's reconnect backoff and keepalive ticker, in seconds
baseBackoff == 5

maxBackoff == 300

tickerInterval == 30

\* ticker periods that make up the backoff cap
CapTicks == maxBackoff \div tickerInterval

(***************************************************************************)
(* State                                                                   *)
(***************************************************************************)
VARIABLES
    listener,     \* Server.listener: "nil", "open" or "closed"
    ctxDone,      \* Server.ctx is cancelled
    wg,           \* Server.wg counter
    mu,           \* Server.mu: "free" or the name of the holder
    connections,  \* Server.connections: device_id -> connection id (a Go map)
    inUse,        \* PortManager.inUse
    panicked,     \* a goroutine dereferenced a nil listener
    startPc,      \* position of the Start call
    acceptPc,     \* position of the acceptConnections goroutine
    sdPc,         \* position of each Shutdown call
    conn,         \* per accepted TCP connection: worker, transport, handler, requests
    fwd,          \* per forwardPort goroutine
    fconn,        \* per handleForwardedConnection goroutine
    pmCall,       \* the last call made on the PortManager by a direct caller
    dtc,          \* the device's Client: fields, goroutine positions, peer
    devices,      \* the devices table: last_seen, and the heartbeats received
    cmdCall,      \* the last SendCommand call: arguments, what it did, result
    hostKey       \* the host key file and the NewServer calls made on it

(***************************************************************************)
(* Keys, fingerprints and the Device Directory                             *)
(***************************************************************************)
KeyA == [type |-> "ssh-rsa", blob |-> "blobA"]
KeyB == [type |-> "ssh-rsa", blob |-> "blobB"]
NoKey == [type |-> "none", blob |-> ""]
ParseError == [type |-> "error", blob |-> ""]

\* time.Time{}: the zero value of a time column, earlier than every other time
ZeroTime == -1

\* LastSeen: time.Now() of the row created when the device registers
RegisteredAt == 0

\* an empty ssh_public_key column: no authorized_keys line, it does not parse
EmptyLine == [wellformed |-> FALSE, type |-> "", blob |-> "", comment |-> ""]

\* the authorized_keys line of a key
KeyLine(key, comment) ==
    [wellformed |-> TRUE, type |-> key.type, blob |-> key.blob, comment |-> comment]

\* the rows of the devices table when the server starts: device_id -> the
\* columns ssh_public_key, ssh_port, last_seen and deleted_at (set or not)
InitialDevices ==
    [devA |-> [SSHPublicKey |-> KeyLine(KeyA, "devA@edge"), SSHPort |-> startPort + 1,
               LastSeen |-> RegisteredAt, DeletedAt |-> FALSE],
     devB |-> [SSHPublicKey |-> KeyLine(KeyB, ""), SSHPort |-> 2222,
               LastSeen |-> RegisteredAt, DeletedAt |-> FALSE],
     devM |-> [SSHPublicKey |-> EmptyLine, SSHPort |-> 0,
               LastSeen |-> RegisteredAt, DeletedAt |-> FALSE]]

\* The devices table as a query sees it, device_id -> row: gorm leaves the
\* soft-deleted rows out
Directory ==
    [d \in {x \in DOMAIN devices.rows : ~devices.rows[x].DeletedAt} |-> devices.rows[d]]

\* database.GetDB().Where("device_id = ?", deviceID).First(&device)
DeviceFound(deviceID) == deviceID \in DOMAIN Directory

\* ssh.ParseAuthorizedKey: drops options and comment, keeps algorithm and key blob
ParseAuthorizedKey(line) ==
    IF line.wellformed THEN [type |-> line.type, blob |-> line.blob] ELSE ParseError

\* ssh.FingerprintSHA256: digest of the marshalled key (algorithm name, key blob)
FingerprintSHA256(key) == <<"SHA256", key.type, key.blob>>

\* What a connecting client presents in the handshake
Credentials ==
    { [user |-> "devA", method |-> "publickey", key |-> KeyA],
      [user |-> "devB", method |-> "publickey", key |-> KeyB],
      [user |-> "devA", method |-> "publickey", key |-> KeyB],
      [user |-> "devX", method |-> "publickey", key |-> KeyA],
      [user |-> "devM", method |-> "publickey", key |-> KeyA],
      [user |-> "devA", method |-> "password", key |-> NoKey] }

NoCred == [user |-> "", method |-> "none", key |-> NoKey]

\* ServerConfig.PasswordCallback: password authentication is never accepted
PasswordCallback(user) == [ok |-> FALSE, deviceID |-> "", err |-> "password authentication not supported"]

PublicKeyCallbackNoCompare(user, key) ==
    IF ~DeviceFound(user)
    THEN [ok |-> FALSE, deviceID |-> "", err |-> "device not found"]
    ELSE IF ParseAuthorizedKey(Directory[user].SSHPublicKey) = ParseError
    THEN [ok |-> FALSE, deviceID |-> "", err |-> "invalid device public key"]
    ELSE [ok |-> TRUE, deviceID |-> user, err |-> ""]

\* ServerConfig.PublicKeyCallback
PublicKeyCallback(user, key) ==
    IF ~DeviceFound(user)
    THEN [ok |-> FALSE, deviceID |-> "", err |-> "device not found"]
    ELSE IF ParseAuthorizedKey(Directory[user].SSHPublicKey) = ParseError
    THEN [ok |-> FALSE, deviceID |-> "", err |-> "invalid device public key"]
    ELSE IF FingerprintSHA256(key) # FingerprintSHA256(ParseAuthorizedKey(Directory[user].SSHPublicKey))
    THEN [ok |-> FALSE, deviceID |-> "", err |-> "public key mismatch"]
    ELSE [ok |-> TRUE, deviceID |-> user, err |-> ""]

\* ssh.NewServerConn with this server's config: the outcome of authentication
Authenticate(cred) ==
    IF cred.method = "password" THEN PasswordCallback(cred.user)
    ELSE PublicKeyCallback(cred.user, cred.key)

\* the line the callback logs before it returns: logger.Error on each
\* rejection, logger.Info otherwise
AuthLog(cred) ==
    IF cred.method = "password" THEN <<"Rejecting password login attempt", cred.user>>
    ELSE IF ~DeviceFound(cred.user) THEN <<"Failed to find device", cred.user>>
    ELSE IF ParseAuthorizedKey(Directory[cred.user].SSHPublicKey) = ParseError
    THEN <<"Failed to parse public key", cred.user>>
    ELSE IF ~Authenticate(cred).ok THEN <<"Public key mismatch", cred.user>>
    ELSE <<"Successfully authenticated device", cred.user>>

(***************************************************************************)
(* Port Broker (PortManager), pure part                                    *)
(***************************************************************************)
PortRange == startPort..endPort

FreePorts(used) == {p \in PortRange : p \notin used}

Min(S) == CHOOSE x \in S : \A y \in S : x <= y

AllocatePortNoCheck(used) ==
    [port |-> startPort, ok |-> TRUE, inUse |-> used \cup {startPort}]

\* the scan of AllocatePort from port on: the first port not in use is marked
\* in use and returned; past endPort the scan fails with port 0
RECURSIVE AllocateFrom(_, _)
AllocateFrom(used, port) ==
    IF port > endPort
    THEN [port |-> NoPort, ok |-> FALSE, inUse |-> used]
    ELSE IF port \notin used
         THEN [port |-> port, ok |-> TRUE, inUse |-> used \cup {port}]
         ELSE AllocateFrom(used, port + 1)

\* AllocatePort scanning from the top of the range down
AllocatePortHighest(used) ==
    IF FreePorts(used) = {}
    THEN [port |-> NoPort, ok |-> FALSE, inUse |-> used]
    ELSE LET p == CHOOSE x \in FreePorts(used) : \A y \in FreePorts(used) : x >= y
         IN  [port |-> p, ok |-> TRUE, inUse |-> used \cup {p}]

\* AllocatePort with the scan running one port past endPort
AllocatePortPastEnd(used) ==
    IF FreePorts(used) = {}
    THEN [port |-> endPort + 1, ok |-> TRUE, inUse |-> used \cup {endPort + 1}]
    ELSE [port |-> Min(FreePorts(used)), ok |-> TRUE, inUse |-> used \cup {Min(FreePorts(used))}]

\* PortManager.AllocatePort: first port of the range not in use, marked in use
AllocatePort(used) == AllocateFrom(used, startPort)

\* ReleasePort with the range check excluding both ends
ReleasePortInner(used, port) ==
    IF port > startPort /\ port < endPort THEN used \ {port} ELSE used

\* PortManager.ReleasePort
ReleasePort(used, port) ==
    IF port >= startPort /\ port <= endPort THEN used \ {port} ELSE used

vars == <<listener, ctxDone, wg, mu, connections, inUse, panicked, startPc,
          acceptPc, sdPc, conn, fwd, fconn, pmCall, dtc, devices, cmdCall, hostKey>>

\* the state outside the Server object
offServer == <<pmCall, dtc, devices, cmdCall, hostKey>>

\* no call made on the PortManager yet
NoCall ==
    [op |-> "none", arg |-> NoPort, before |-> {}, port |-> NoPort, ok |-> FALSE,
     prev |-> [op |-> "none", arg |-> NoPort, before |-> {}, port |-> NoPort, ok |-> FALSE]]

\* the device identity the Client is built with (NewClient's deviceID)
ClientDeviceID == "devA"

\* no SendHeartbeat call made yet
NoHeartbeatCall ==
    [status |-> "", metrics |-> "nil", wasConnected |-> FALSE, result |-> "none",
     requests |-> <<>>]

\* no OpenPortForward call made yet
NoPortForward ==
    [pc |-> "none",          \* the accept goroutine: "none", "accept", "closed"
     localPort |-> NoPort, remotePort |-> NoPort,
     result |-> "none",      \* what OpenPortForward returned
     requests |-> <<>>]      \* global requests the call wrote to the server

\* the connectionLoop goroutines: of the first and of a further Connect call
LoopIds == {1, 2}

\* a connectionLoop goroutine not started: its position, its locals and the
\* reschedule goroutines it started that have not yet read backoff
NoLoop == [pc |-> "none", lastReconnectAttempt |-> "zero", backoff |-> baseBackoff,
           tSpawned |-> 0]

\* NewClient, with the goroutines not yet started and the callers at their start
NewClient ==
    [ctxDone |-> FALSE,           \* c.ctx is cancelled
     client |-> "nil",            \* c.client: "nil" or "set"
     link |-> "none",             \* the transport of c.client: "none", "up", "broken"
     mu |-> "free",               \* c.mu: "free" or the holder
     connected |-> FALSE,         \* c.connected
     reconnectCh |-> 0,           \* signals buffered in c.reconnectCh (capacity 1)
     done |-> FALSE,              \* c.done is closed
     loopPc |-> "none",           \* position of the connectionLoop goroutine
     lastReconnectAttempt |-> "zero",
     backoff |-> baseBackoff,     \* connectionLoop's backoff, in seconds
     fails |-> 0,                 \* doConnect errors since the last doConnect success
     backoffAtDial |-> baseBackoff, \* backoff when the last doConnect began
     tSpawned |-> 0,              \* reschedule goroutines not yet asleep
     tSleep |-> 0,                \* reschedule goroutines in time.Sleep
     tSend |-> 0,                 \* reschedule goroutines at their select
     timerSleep |-> 0,            \* the duration the last reschedule goroutine read
     handlers |-> 0,              \* handleConnection goroutines at their select
     kaPc |-> "none",             \* "sent": a handler is inside SendRequest(keepalive)
     kaWaited |-> 0,              \* ticker periods the outstanding keepalive has waited
     age |-> 0,                   \* ticker periods the last connection has lasted
     lost |-> FALSE,              \* the last connection ended on a keepalive error
     connectPc |-> "init",        \* the caller of Connect
     discPc |-> "idle",           \* the caller of Disconnect
     hb |-> NoHeartbeatCall,      \* the last SendHeartbeat call
     pf |-> NoPortForward,        \* the OpenPortForward call and its accept goroutine
     pfc |-> "none",              \* the handlePortForwardConnection goroutine
     loop2 |-> NoLoop,            \* the connectionLoop goroutine of a further Connect call
     doneCloses |-> 0]            \* close(c.done) calls made (the second one panics)

\* the timestamps a heartbeat can carry, later than the registration
Timestamps == 1..MaxTimestamp

\* the device ids a client can present
DeviceNames == {c.user : c \in Credentials}

\* the devices table before any heartbeat, and no HTTP request answered yet
NoHeartbeats ==
    [rows |-> InitialDevices,
     received |-> [d \in DeviceNames |-> {}],   \* timestamps of the heartbeats received
     status |-> 0]                              \* status of the last HTTP response

\* no SendCommand call made yet: the calls in the order they were made
NoCommandCall == <<>>

EmptyMap == [x \in {} |-> x]

MapPut(m, k, v) == [x \in DOMAIN m \cup {k} |-> IF x = k THEN v ELSE m[x]]

\* Global requests a device can send: ssh.Request with its Type, whether its
\* Payload parses, the BindPort of the payload and WantReply
Requests ==
    { [type |-> "tcpip-forward", wellformed |-> TRUE, BindPort |-> bp, WantReply |-> w] :
          bp \in BindPorts, w \in BOOLEAN }
    \cup { [type |-> t, wellformed |-> (t # "tcpip-forward"), BindPort |-> NoPort, WantReply |-> w] :
             t \in {"tcpip-forward", "keepalive@edgetainer"}, w \in BOOLEAN }

FreeConn ==
    [pc |-> "free", cred |-> NoCred, deviceID |-> "", closed |-> FALSE, cause |-> "",
     hPc |-> "none", hCancelled |-> FALSE, reqPc |-> "none", port |-> NoPort,
     remote |-> NoPort, wantReply |-> FALSE, reply |-> "none", ForwardPorts |-> EmptyMap,
     granted |-> {}]

FreeForward == [pc |-> "free", conn |-> 1, port |-> NoPort, remote |-> NoPort, listener |-> "none"]

\* the bytes an external client writes to a forwarded connection, in order
Upload == [i \in 1..MaxBytes |-> <<"byte", i>>]

FreeFwdConn ==
    [pc |-> "free", fwd |-> 1, localOpen |-> FALSE, l2cDone |-> FALSE, c2lDone |-> FALSE,
     written |-> <<>>,     \* bytes the external client has written to the socket
     buf |-> <<>>,         \* bytes in the socket that io.Copy has not read yet
     toDevice |-> <<>>]    \* bytes io.Copy has written to the channel to the device

\* no file at hostKeyPath
NoFile == [exists |-> FALSE, readable |-> FALSE, content |-> "none", key |-> 0]

\* a file at hostKeyPath holding the PEM encoding of private key k
KeyFile(k) == [exists |-> TRUE, readable |-> TRUE, content |-> "pem", key |-> k]

\* a file at hostKeyPath that is not a private key
GarbageFile == [exists |-> TRUE, readable |-> TRUE, content |-> "garbage", key |-> 0]

\* the key an operator installs by hand
OperatorKey == 0

\* no host key file and no NewServer call yet
NoHostKey ==
    [file |-> NoFile,       \* the file at hostKeyPath
     generated |-> 0,       \* keys rsa.GenerateKey has made
     calls |-> 0,           \* NewServer calls made
     used |-> {},           \* the host keys of the servers constructed
     before |-> NoFile,     \* the file when the last NewServer call began
     result |-> "none"]     \* what the last NewServer call returned

Init ==
    /\ listener = "nil"
    /\ ctxDone = FALSE
    /\ wg = 0
    /\ mu = "free"
    /\ connections = EmptyMap
    /\ inUse = {}
    /\ panicked = FALSE
    /\ startPc = "init"
    /\ acceptPc = "none"
    /\ sdPc = [i \in ShutdownIds |-> "idle"]
    /\ conn = [c \in ConnIds |-> FreeConn]
    /\ fwd = [f \in ForwardIds |-> FreeForward]
    /\ fconn = [k \in FwdConnIds |-> FreeFwdConn]
    /\ pmCall = NoCall
    /\ dtc = NewClient
    /\ devices = NoHeartbeats
    /\ cmdCall = NoCommandCall
    /\ hostKey = NoHostKey

(***************************************************************************)
(* NewServer: the host key                                                 *)
(***************************************************************************)
\* ioutil.ReadFile(hostKeyPath)
ReadFile(file) ==
    IF ~file.exists THEN [err |-> "ENOENT", data |-> NoFile]
    ELSE IF ~file.readable THEN [err |-> "EACCES", data |-> NoFile]
    ELSE [err |-> "nil", data |-> file]

\* a test that takes every read error for a missing file
IsNotExistAnyError(err) == err # "nil"

\* os.IsNotExist(err)
IsNotExist(err) == err = "ENOENT"

\* what can happen in generateHostKey: rsa.GenerateKey fails ("nokey");
\* os.WriteFile writes the file ("ok"), fails with nothing written ("failed"),
\* or fails after the file was created or truncated ("partial")
GenerateOutcomes == {"nokey", "ok", "failed", "partial"}

\* os.WriteFile(path, data, 0600)
WriteFile(file, data, outcome) ==
    CASE outcome = "ok" -> [data EXCEPT !.readable = IF file.exists THEN file.readable ELSE TRUE]
      [] outcome = "failed" -> file
      [] outcome = "partial" -> [GarbageFile EXCEPT !.readable = IF file.exists THEN file.readable ELSE TRUE]

\* generateHostKey(path): a fresh RSA key k, PEM-encoded, written to path;
\* when rsa.GenerateKey fails no key is made and nothing is written
generateHostKey(file, k, outcome) ==
    IF outcome = "nokey"
    THEN [file |-> file, made |-> FALSE, err |-> "failed to generate RSA key", data |-> NoFile]
    ELSE [file |-> WriteFile(file, KeyFile(k), outcome),
          made |-> TRUE,
          err |-> IF outcome = "ok" THEN "nil" ELSE "failed to write host key",
          data |-> KeyFile(k)]

\* ssh.ParsePrivateKey(keyData)
ParsePrivateKey(data) ==
    IF data.content = "pem" THEN [err |-> "nil", key |-> data.key]
    ELSE [err |-> "failed to parse host key", key |-> 0]

\* NewServer's loading of the host key from a file in state file, with k the
\* key rsa.GenerateKey would make and outcome what generateHostKey would do:
\* the file afterwards, whether a key was generated, the error or the signer
LoadHostKey(file, k, outcome) ==
    LET r == ReadFile(file)
        g == generateHostKey(file, k, outcome)
        generate == r.err # "nil" /\ IsNotExist(r.err)
        keyData == IF generate THEN g.data ELSE r.data
        parsed == ParsePrivateKey(keyData)
    IN  IF r.err # "nil" /\ ~generate
        THEN [file |-> file, generated |-> FALSE, err |-> "failed to load host key", key |-> 0]
        ELSE IF generate /\ g.err # "nil"
        THEN [file |-> g.file, generated |-> g.made, err |-> "failed to generate host key", key |-> 0]
        ELSE [file |-> IF generate THEN g.file ELSE file, generated |-> generate,
              err |-> parsed.err, key |-> parsed.key]

\* NewServer(host, port, hostKeyPath) called by a start of the server
NewServer(outcome) ==
    /\ hostKey.calls < MaxStarts
    /\ LET l == LoadHostKey(hostKey.file, hostKey.generated + 1, outcome)
       IN  hostKey' = [file |-> l.file,
                       generated |-> hostKey.generated + (IF l.generated THEN 1 ELSE 0),
                       calls |-> hostKey.calls + 1,
                       used |-> IF l.err = "nil" THEN hostKey.used \cup {l.key} ELSE hostKey.used,
                       before |-> hostKey.file,
                       result |-> l.err]
    /\ UNCHANGED <<listener, ctxDone, wg, mu, connections, inUse, panicked, startPc, acceptPc,
                   sdPc, conn, fwd, fconn, pmCall, dtc, devices, cmdCall>>

\* before the first start an operator installs a key of their own, or leaves
\* something else at hostKeyPath
OperatorInstalls(f) ==
    /\ hostKey.calls = 0
    /\ ~hostKey.file.exists
    /\ hostKey' = [hostKey EXCEPT !.file = f]
    /\ UNCHANGED <<listener, ctxDone, wg, mu, connections, inUse, panicked, startPc, acceptPc,
                   sdPc, conn, fwd, fconn, pmCall, dtc, devices, cmdCall>>

\* the permissions of the file are changed between two starts
Chmod ==
    /\ hostKey.file.exists
    /\ hostKey' = [hostKey EXCEPT !.file.readable = ~@]
    /\ UNCHANGED <<listener, ctxDone, wg, mu, connections, inUse, panicked, startPc, acceptPc,
                   sdPc, conn, fwd, fconn, pmCall, dtc, devices, cmdCall>>

\* net.Conn.Close / ssh.ServerConn.Close: closes the transport, once
CloseConn(cs, c, why) ==
    IF cs[c].closed THEN cs ELSE [cs EXCEPT ![c].closed = TRUE, ![c].cause = why]

\* the connection's context: cancelled by its own cancel or by the server's
HCtxDone(c) == conn[c].hCancelled \/ ctxDone

(***************************************************************************)
(* Server.Start and Server.acceptConnections                               *)
(***************************************************************************)
\* net.Listen and the assignment of s.listener
StartListen(ok) ==
    /\ startPc = "init"
    /\ IF ok
       THEN /\ listener' = "open"
            /\ startPc' = "listening"
       ELSE /\ startPc' = "failed"
            /\ UNCHANGED listener
    /\ UNCHANGED <<offServer, ctxDone, wg, mu, connections, inUse, panicked, acceptPc, sdPc, conn, fwd, fconn>>

\* s.wg.Add(1); go s.acceptConnections()
StartSpawn ==
    /\ startPc = "listening"
    /\ startPc' = "started"
    /\ wg' = wg + 1
    /\ acceptPc' = "running"
    /\ UNCHANGED <<offServer, listener, ctxDone, mu, connections, inUse, panicked, sdPc, conn, fwd, fconn>>

\* listener.Accept returns a connection: go s.handleConnection(conn)
AcceptConn(c, cred) ==
    /\ acceptPc = "running"
    /\ listener = "open"
    /\ conn[c].pc = "free"
    /\ \A c2 \in ConnIds : c2 < c => conn[c2].pc # "free"
    /\ conn' = [conn EXCEPT ![c].pc = "handshake", ![c].cred = cred]
    /\ UNCHANGED <<offServer, listener, ctxDone, wg, mu, connections, inUse, panicked, startPc, acceptPc, sdPc, fwd, fconn>>

\* the error branch of the accept loop: return when the context is done,
\* otherwise sleep one second and continue
AcceptErrorBranch ==
    IF ctxDone
    THEN /\ acceptPc' = "done"
         /\ wg' = wg - 1
    ELSE UNCHANGED <<acceptPc, wg>>

\* listener.Accept fails because the listener is closed
AcceptOnClosed ==
    /\ acceptPc = "running"
    /\ listener = "closed"
    /\ AcceptErrorBranch
    /\ UNCHANGED <<offServer, listener, ctxDone, mu, connections, inUse, panicked, startPc, sdPc, conn, fwd, fconn>>

\* listener.Accept fails with a transient OS error
AcceptTransientError ==
    /\ acceptPc = "running"
    /\ listener = "open"
    /\ AcceptErrorBranch
    /\ UNCHANGED <<offServer, listener, ctxDone, mu, connections, inUse, panicked, startPc, sdPc, conn, fwd, fconn>>

(***************************************************************************)
(* Server.handleConnection: handshake and registration                     *)
(***************************************************************************)
\* the peer drops the TCP connection, or the transport fails
TransportError(c) ==
    /\ conn[c].pc \in {"handshake", "register", "locked", "registered", "spawned", "returned"}
    /\ ~conn[c].closed
    /\ conn' = CloseConn(conn, c, "transport")
    /\ UNCHANGED <<offServer, listener, ctxDone, wg, mu, connections, inUse, panicked, startPc, acceptPc, sdPc, fwd, fconn>>

\* ssh.NewServerConn; on error the deferred conn.Close() runs and the worker returns
Handshake(c) ==
    /\ conn[c].pc = "handshake"
    /\ IF ~conn[c].closed /\ Authenticate(conn[c].cred).ok
       THEN conn' = [conn EXCEPT ![c].pc = "register",
                                 ![c].deviceID = Authenticate(conn[c].cred).deviceID]
       ELSE conn' = [CloseConn(conn, c, "handshake") EXCEPT ![c].pc = "failed"]
    /\ UNCHANGED <<offServer, listener, ctxDone, wg, mu, connections, inUse, panicked, startPc, acceptPc, sdPc, fwd, fconn>>

CloseExistingSkip(cs, deviceID) == cs

\* existing.Connection.Close() for the entry the map holds for this device
CloseExisting(cs, deviceID) ==
    IF deviceID \in DOMAIN connections
    THEN CloseConn(cs, connections[deviceID], "superseded")
    ELSE cs

\* s.mu.Lock(); close the existing connection of the device, if any
RegisterLock(c) ==
    /\ conn[c].pc = "register"
    /\ mu = "free"
    /\ mu' = "handleConnection"
    /\ conn' = [CloseExisting(conn, conn[c].deviceID) EXCEPT ![c].pc = "locked"]
    /\ UNCHANGED <<offServer, listener, ctxDone, wg, connections, inUse, panicked, startPc, acceptPc, sdPc, fwd, fconn>>

\* s.connections[deviceID] = deviceConn; s.mu.Unlock()
RegisterInsert(c) ==
    /\ conn[c].pc = "locked"
    /\ connections' = MapPut(connections, conn[c].deviceID, c)
    /\ mu' = "free"
    /\ conn' = [conn EXCEPT ![c].pc = "registered"]
    /\ UNCHANGED <<offServer, listener, ctxDone, wg, inUse, panicked, startPc, acceptPc, sdPc, fwd, fconn>>

\* go handler.handleConnection(), which starts go h.handleRequests()
SpawnHandler(c) ==
    /\ conn[c].pc = "registered"
    /\ conn' = [conn EXCEPT ![c].pc = "spawned", ![c].hPc = "running", ![c].reqPc = "idle"]
    /\ UNCHANGED <<offServer, listener, ctxDone, wg, mu, connections, inUse, panicked, startPc, acceptPc, sdPc, fwd, fconn>>

\* Server.handleConnection returns: its deferred conn.Close() runs
HandleConnectionReturn(c) ==
    /\ conn[c].pc = "spawned"
    /\ conn' = [CloseConn(conn, c, "handleConnection-return") EXCEPT ![c].pc = "returned"]
    /\ UNCHANGED <<offServer, listener, ctxDone, wg, mu, connections, inUse, panicked, startPc, acceptPc, sdPc, fwd, fconn>>

\* ConnectionHandler.handleConnection: handleChannels ends when the transport
\* is closed; the deferred h.cancel() and h.conn.Close() run
HandlerExit(c) ==
    /\ conn[c].hPc = "running"
    /\ conn[c].closed
    /\ conn' = [conn EXCEPT ![c].hPc = "done", ![c].hCancelled = TRUE]
    /\ UNCHANGED <<offServer, listener, ctxDone, wg, mu, connections, inUse, panicked, startPc, acceptPc, sdPc, fwd, fconn>>

\* Server.GetDeviceConnection, called with s.mu free
GetDeviceConnection(deviceID) ==
    IF deviceID \in DOMAIN connections
    THEN [conn |-> {connections[deviceID]}, ok |-> TRUE]
    ELSE [conn |-> {}, ok |-> FALSE]

(***************************************************************************)
(* Server.SendCommand and the protocol envelopes                           *)
(***************************************************************************)
\* command types of the protocol, and the devices a caller may name
CommandTypes == {"get_status", "restart"}

CommandTargets == {"devA", "devB"}

\* protocol.NewCommand for the n-th command created: uuid.New() gives an id
\* no earlier command has
NewCommand(n, cmdType) == [ID |-> <<"uuid", n>>, Type |-> cmdType]

\* no response envelope (protocol.Response) read
NoResponse == [CommandID |-> <<>>, Type |-> "", Success |-> FALSE]

\* the device has a recorded connection whose transport is open
HasLiveConnection(deviceID) ==
    \E c \in ConnIds :
        /\ conn[c].pc \in {"registered", "spawned", "returned"}
        /\ conn[c].deviceID = deviceID
        /\ ~conn[c].closed

\* SendCommand's result: the error when the map has no entry for the device,
\* otherwise nil
SendCommandResult(deviceID) ==
    IF GetDeviceConnection(deviceID).ok THEN "nil" ELSE "not connected"

\* Server.SendCommand: the map is read under s.mu; the command is logged;
\* nothing is written to the device and nothing is read from it
SendCommand(deviceID, command) ==
    /\ Len(cmdCall) < MaxCommands
    /\ mu = "free"
    /\ cmdCall' = Append(cmdCall,
                         [deviceID |-> deviceID,
                          command |-> command,
                          live |-> HasLiveConnection(deviceID),  \* at the call
                          issued |-> <<>>,           \* requests written to the device
                          response |-> NoResponse,   \* response envelope read
                          waited |-> FALSE,          \* the call waited for a reply
                          result |-> SendCommandResult(deviceID)])
    /\ UNCHANGED <<pmCall, dtc, devices, hostKey, listener, ctxDone, wg, mu, connections, inUse,
                   panicked, startPc, acceptPc, sdPc, conn, fwd, fconn>>

(***************************************************************************)
(* ConnectionHandler.handleRequests and handleTcpipForward                 *)
(***************************************************************************)
Authenticated(c) == conn[c].pc \in {"register", "locked", "registered", "spawned", "returned"}

FreeForwardId == Min({f \in ForwardIds : fwd[f].pc = "free"})

\* req.Reply(ok, ...) behind "if req.WantReply": the reply reaches the device
\* only when it was asked for and the transport is still open
Reply(cn, wantReply, answer) ==
    IF wantReply /\ ~cn.closed THEN [cn EXCEPT !.reply = answer] ELSE cn

\* handleRequests, default branch, and handleTcpipForward on a payload that
\* does not parse: if req.WantReply { req.Reply(false, nil) }
HandleRejectedRequest(c, r) ==
    /\ conn[c].reqPc = "idle"
    /\ r.type # "tcpip-forward" \/ ~r.wellformed
    /\ conn' = [conn EXCEPT ![c] = Reply(@, r.WantReply, "failure")]
    /\ UNCHANGED <<offServer, listener, ctxDone, wg, mu, connections, inUse, panicked, startPc, acceptPc, sdPc, fwd, fconn>>

\* handleTcpipForward up to go h.forwardPort(port, BindPort), on a request r
\* taken from h.requests: parse the payload, allocate a port, start the
\* forwardPort goroutine; reply false, if a reply is wanted, when no port is
\* available
TcpipForwardAllocate(c, r) ==
    /\ conn[c].reqPc = "idle"
    /\ r.type = "tcpip-forward" /\ r.wellformed
    /\ IF ~AllocatePort(inUse).ok
       THEN /\ conn' = [conn EXCEPT ![c] = Reply(@, r.WantReply, "failure")]
            /\ UNCHANGED <<inUse, fwd>>
       ELSE /\ \E f \in ForwardIds : fwd[f].pc = "free"
            /\ inUse' = AllocatePort(inUse).inUse
            /\ fwd' = [fwd EXCEPT ![FreeForwardId] =
                          [pc |-> "listen", conn |-> c, port |-> AllocatePort(inUse).port,
                           remote |-> r.BindPort, listener |-> "none"]]
            /\ conn' = [conn EXCEPT ![c].reqPc = "register", ![c].port = AllocatePort(inUse).port,
                                    ![c].remote = r.BindPort, ![c].wantReply = r.WantReply]
    /\ UNCHANGED <<offServer, listener, ctxDone, wg, mu, connections, panicked, startPc, acceptPc, sdPc, fconn>>

\* conn.ForwardPorts[port] = BindPort on the connection the map holds for the device
RecordForward(cs, deviceID, port, remote) ==
    IF deviceID \in DOMAIN connections
    THEN [cs EXCEPT ![connections[deviceID]].ForwardPorts = MapPut(@, port, remote)]
    ELSE cs

\* handleTcpipForward from h.server.mu.Lock() to h.server.mu.Unlock(): record
\* the port on the connection the map holds for the device
TcpipForwardRegister(c) ==
    /\ conn[c].reqPc = "register"
    /\ mu = "free"
    /\ conn' = [RecordForward(conn, conn[c].deviceID, conn[c].port, conn[c].remote)
                   EXCEPT ![c].reqPc = "reply"]
    /\ UNCHANGED <<offServer, listener, ctxDone, wg, mu, connections, inUse, panicked, startPc, acceptPc, sdPc, fwd, fconn>>

\* the end of handleTcpipForward, after the mutex is released:
\* if req.WantReply { req.Reply(true, ssh.Marshal(reply)) }
TcpipForwardReply(c) ==
    /\ conn[c].reqPc = "reply"
    /\ conn' = [conn EXCEPT ![c] =
                   [Reply(@, @.wantReply, "success")
                       EXCEPT !.reqPc = "idle", !.port = NoPort, !.remote = NoPort,
                              !.wantReply = FALSE,
                              !.granted = IF conn[c].wantReply /\ ~conn[c].closed
                                          THEN @ \cup {conn[c].port} ELSE @]]
    /\ UNCHANGED <<offServer, listener, ctxDone, wg, mu, connections, inUse, panicked, startPc, acceptPc, sdPc, fwd, fconn>>

\* handleRequests returns: h.requests is closed and drained
RequestsDone(c) ==
    /\ conn[c].reqPc = "idle"
    /\ conn[c].closed
    /\ conn' = [conn EXCEPT ![c].reqPc = "done"]
    /\ UNCHANGED <<offServer, listener, ctxDone, wg, mu, connections, inUse, panicked, startPc, acceptPc, sdPc, fwd, fconn>>

(***************************************************************************)
(* Heartbeats: the heartbeat@edgetainer request and POST /api/agent/heartbeat *)
(***************************************************************************)
\* handleRequests, default branch, on a heartbeat@edgetainer request: the
\* device sends it with WantReply false, so nothing is replied and nothing is
\* stored
HandleHeartbeatRequest(c, ts) ==
    /\ conn[c].reqPc = "idle"
    /\ ~conn[c].closed
    /\ devices' = [devices EXCEPT !.received[conn[c].deviceID] = @ \cup {ts}]
    /\ UNCHANGED <<pmCall, dtc, cmdCall, hostKey, listener, ctxDone, wg, mu, connections, inUse,
                   panicked, startPc, acceptPc, sdPc, conn, fwd, fconn>>

\* the methods and bodies of a request to /api/agent/heartbeat
HttpMethods == {"POST", "GET"}

\* Server.handleAgentHeartbeat: 405 unless POST, 400 when the body does not
\* decode, otherwise the heartbeat is logged and answered with 200
handleAgentHeartbeat(method, decodes, deviceID, ts) ==
    /\ devices' =
          IF method # "POST" THEN [devices EXCEPT !.status = 405]
          ELSE IF ~decodes THEN [devices EXCEPT !.status = 400]
          ELSE IF deviceID \in DOMAIN Directory
               THEN [devices EXCEPT !.status = 200, !.received[deviceID] = @ \cup {ts}]
               ELSE [devices EXCEPT !.status = 200]
    /\ UNCHANGED <<pmCall, dtc, cmdCall, hostKey, listener, ctxDone, wg, mu, connections, inUse,
                   panicked, startPc, acceptPc, sdPc, conn, fwd, fconn>>

(***************************************************************************)
(* The device API: handleDevices, handleDeviceByID, handleDeviceProvisioning *)
(***************************************************************************)
\* the device ids a caller of the API names: one the table holds, one it does not
ApiTargets == {"devA", "devN"}

\* the last_seen a request body carries, when it carries one
BodyTime == 2

\* request bodies decoded into a models.Device, device_id apart: one that
\* does not decode, one without a name, one with a name only, one that also
\* carries last_seen, ssh_port and ssh_public_key; a field the body leaves out
\* is the zero value
DeviceBodies ==
    { [decodes |-> d, device_id |-> "", name |-> "", last_seen |-> ZeroTime, ssh_port |-> 0,
       ssh_public_key |-> EmptyLine] : d \in BOOLEAN }
    \cup { [decodes |-> TRUE, device_id |-> "", name |-> "a", last_seen |-> ZeroTime,
             ssh_port |-> 0, ssh_public_key |-> EmptyLine],
           [decodes |-> TRUE, device_id |-> "", name |-> "a", last_seen |-> BodyTime,
             ssh_port |-> startPort, ssh_public_key |-> KeyLine(KeyB, "")] }

\* a request without a body: nothing decodes from it
NoBody ==
    [decodes |-> FALSE, device_id |-> "", name |-> "", last_seen |-> ZeroTime, ssh_port |-> 0,
     ssh_public_key |-> EmptyLine]

\* the requests made to /api/devices/<id>: method, id of the path, body, and
\* whether the database executes the statement of the request (dbOk); GET and
\* DELETE carry no body
DeviceByIDRequests ==
    { [method |-> m, deviceID |-> id, body |-> NoBody, dbOk |-> ok] :
          m \in {"GET", "DELETE"}, id \in ApiTargets, ok \in BOOLEAN }
    \cup { r \in [method : {"PUT"}, deviceID : ApiTargets, body : DeviceBodies, dbOk : BOOLEAN] :
             r.dbOk \/ (r.body.decodes /\ r.body.name # "") }
    \cup { [method |-> "POST", deviceID |-> "devA", body |-> NoBody, dbOk |-> TRUE] }

\* the requests made to /api/devices; a POST body names the device_id
DevicesRequests ==
    { [method |-> "GET", body |-> NoBody, dbOk |-> ok] : ok \in BOOLEAN }
    \cup { [method |-> "POST", body |-> [r.body EXCEPT !.device_id = r.deviceID],
             dbOk |-> r.dbOk] : r \in {x \in DeviceByIDRequests : x.method = "PUT"} }
    \cup { [method |-> "DELETE", body |-> NoBody, dbOk |-> TRUE] }

\* gorm Updates(&device): writes the columns whose struct field is not the
\* zero value
Updates(row, body) ==
    [row EXCEPT !.LastSeen = IF body.last_seen = ZeroTime THEN @ ELSE body.last_seen,
                !.SSHPort = IF body.ssh_port = 0 THEN @ ELSE body.ssh_port,
                !.SSHPublicKey = IF body.ssh_public_key = EmptyLine THEN @
                                 ELSE body.ssh_public_key]

\* gorm Create(&device): fails when the database does not execute the insert
\* and when the device_id is taken (it has a unique index, which the
\* soft-deleted rows still occupy)
Create(rows, deviceID, row, dbOk) ==
    IF ~dbOk \/ deviceID \in DOMAIN rows
    THEN [ok |-> FALSE, rows |-> rows]
    ELSE [ok |-> TRUE, rows |-> MapPut(rows, deviceID, row)]

\* Server.handleDeviceByID: GET reads the row (any error is 404), PUT updates
\* it from the body, DELETE soft-deletes it; a failed statement is 500, no row
\* affected is 404
handleDeviceByID(method, deviceID, body, dbOk) ==
    /\ devices' =
          CASE method = "GET" ->
                 [devices EXCEPT !.status = IF dbOk /\ DeviceFound(deviceID) THEN 200 ELSE 404]
            [] method = "PUT" ->
                 IF ~body.decodes \/ body.name = "" THEN [devices EXCEPT !.status = 400]
                 ELSE IF ~dbOk THEN [devices EXCEPT !.status = 500]
                 ELSE IF ~DeviceFound(deviceID) THEN [devices EXCEPT !.status = 404]
                 ELSE [devices EXCEPT !.rows[deviceID] = Updates(@, body), !.status = 200]
            [] method = "DELETE" ->
                 IF ~dbOk THEN [devices EXCEPT !.status = 500]
                 ELSE IF ~DeviceFound(deviceID) THEN [devices EXCEPT !.status = 404]
                 ELSE [devices EXCEPT !.rows[deviceID].DeletedAt = TRUE, !.status = 204]
            [] OTHER -> [devices EXCEPT !.status = 405]
    /\ UNCHANGED <<pmCall, dtc, cmdCall, hostKey, listener, ctxDone, wg, mu, connections, inUse,
                   panicked, startPc, acceptPc, sdPc, conn, fwd, fconn>>

\* Server.handleDevices: GET lists the rows, POST creates the row of the body;
\* a failed statement is 500
handleDevices(method, body, dbOk) ==
    /\ devices' =
          CASE method = "GET" -> [devices EXCEPT !.status = IF dbOk THEN 200 ELSE 500]
            [] method = "POST" ->
                 IF ~body.decodes \/ body.name = "" THEN [devices EXCEPT !.status = 400]
                 ELSE LET created ==
                              Create(devices.rows, body.device_id,
                                     [SSHPublicKey |-> body.ssh_public_key,
                                      SSHPort |-> body.ssh_port,
                                      LastSeen |-> body.last_seen, DeletedAt |-> FALSE],
                                     dbOk)
                      IN  [devices EXCEPT !.rows = created.rows,
                                          !.status = IF created.ok THEN 201 ELSE 500]
            [] OTHER -> [devices EXCEPT !.status = 405]
    /\ UNCHANGED <<pmCall, dtc, cmdCall, hostKey, listener, ctxDone, wg, mu, connections, inUse,
                   panicked, startPc, acceptPc, sdPc, conn, fwd, fconn>>

\* time.Now().UnixNano() at two provisioning requests
UnixNanos == {1, 100000 + 1}

\* generateDeviceID: "device-<name>-<UnixNano % 100000>"
generateDeviceID(name, timestamp) ==
    "device-" \o name \o "-" \o ToString(timestamp % 100000)

\* the fleet_id of a provisioning request: none, a UUID, not a UUID
FleetIDs == {"", "6ba7b810-9dad-11d1-80b4-00c04fd430c8", "x"}

\* uuid.Parse succeeds
ParseUUID(fleetID) == fleetID = "6ba7b810-9dad-11d1-80b4-00c04fd430c8"

\* auth.GenerateKeyPair: the key pair of a device; its PublicKey is the
\* authorized_keys line of the key without a comment
GenerateKeyPair(deviceID, generated) ==
    [ok |-> generated,
     PublicKey |-> IF generated THEN KeyLine([type |-> "ssh-rsa", blob |-> deviceID], "")
                   ELSE EmptyLine]

\* the requests made to the provisioning endpoint, with what the server's
\* environment does while it serves them: generated (the RSA key pair is
\* made), timestamp (UnixNano), dbOk (the insert is executed), rendered (the
\* Butane template renders)
ProvisionRequest ==
    [method |-> "POST", decodes |-> TRUE, name |-> "a", fleet_id |-> "", generated |-> TRUE,
     timestamp |-> 1, dbOk |-> TRUE, rendered |-> TRUE]

ProvisionRequests ==
    { [ProvisionRequest EXCEPT !.method = "GET"],
      [ProvisionRequest EXCEPT !.decodes = FALSE, !.name = ""],
      [ProvisionRequest EXCEPT !.name = ""],
      [ProvisionRequest EXCEPT !.generated = FALSE],
      [ProvisionRequest EXCEPT !.fleet_id = "x"] }
    \cup { [ProvisionRequest EXCEPT !.fleet_id = f, !.timestamp = t, !.dbOk = o[1],
                                    !.rendered = o[2]] :
             f \in {x \in FleetIDs : x = "" \/ ParseUUID(x)}, t \in UnixNanos,
             o \in {<<FALSE, TRUE>>, <<TRUE, FALSE>>, <<TRUE, TRUE>>} }

\* Server.handleDeviceProvisioning: POST generates a device id and a key
\* pair, parses the fleet id, creates a pending row with the public key,
\* LastSeen = time.Now() and SSHPort 2222, then renders the template
handleDeviceProvisioning(req, now) ==
    /\ devices' =
          IF req.method # "POST" THEN [devices EXCEPT !.status = 405]
          ELSE IF ~req.decodes \/ req.name = "" THEN [devices EXCEPT !.status = 400]
          ELSE LET deviceID == generateDeviceID(req.name, req.timestamp)
                   keyPair == GenerateKeyPair(deviceID, req.generated)
                   created ==
                       Create(devices.rows, deviceID,
                              [SSHPublicKey |-> keyPair.PublicKey, SSHPort |-> 2222,
                               LastSeen |-> now, DeletedAt |-> FALSE],
                              req.dbOk)
               IN  IF ~keyPair.ok THEN [devices EXCEPT !.status = 500]
                   ELSE IF req.fleet_id # "" /\ ~ParseUUID(req.fleet_id)
                        THEN [devices EXCEPT !.status = 400]
                   ELSE [devices EXCEPT !.rows = created.rows,
                                        !.status = IF created.ok /\ req.rendered THEN 200
                                                   ELSE 500]
    /\ UNCHANGED <<pmCall, dtc, cmdCall, hostKey, listener, ctxDone, wg, mu, connections, inUse,
                   panicked, startPc, acceptPc, sdPc, conn, fwd, fconn>>

(***************************************************************************)
(* ConnectionHandler.forwardPort                                           *)
(***************************************************************************)
\* net.Listen on 127.0.0.1:localPort; on error the port is released
ForwardListen(f, ok) ==
    /\ fwd[f].pc = "listen"
    /\ IF ok
       THEN /\ fwd' = [fwd EXCEPT ![f].pc = "accept", ![f].listener = "open"]
            /\ UNCHANGED inUse
       ELSE /\ fwd' = [fwd EXCEPT ![f].pc = "done"]
            /\ inUse' = ReleasePort(inUse, fwd[f].port)
    /\ UNCHANGED <<offServer, listener, ctxDone, wg, mu, connections, panicked, startPc, acceptPc, sdPc, conn, fconn>>

\* listener.Accept returns a local connection: go h.handleForwardedConnection
ForwardAccept(f, k) ==
    /\ fwd[f].pc = "accept"
    /\ fconn[k].pc = "free"
    /\ \A k2 \in FwdConnIds : k2 < k => fconn[k2].pc # "free"
    /\ fconn' = [fconn EXCEPT ![k] = [FreeFwdConn EXCEPT !.pc = "open", !.fwd = f,
                                                          !.localOpen = TRUE]]
    /\ UNCHANGED <<offServer, listener, ctxDone, wg, mu, connections, inUse, panicked, startPc, acceptPc, sdPc, conn, fwd>>

\* listener.Accept fails (nothing but forwardPort's own deferred call closes
\* this listener, so only an OS error gets here): return when the connection's
\* context is done, running the deferred listener.Close and ReleasePort
ForwardAcceptError(f) ==
    /\ fwd[f].pc = "accept"
    /\ IF HCtxDone(fwd[f].conn)
       THEN /\ fwd' = [fwd EXCEPT ![f].pc = "done", ![f].listener = "closed"]
            /\ inUse' = ReleasePort(inUse, fwd[f].port)
       ELSE UNCHANGED <<fwd, inUse>>
    /\ UNCHANGED <<offServer, listener, ctxDone, wg, mu, connections, panicked, startPc, acceptPc, sdPc, conn, fconn>>

(***************************************************************************)
(* ConnectionHandler.handleForwardedConnection                             *)
(***************************************************************************)
\* h.conn.OpenChannel("direct-tcpip"): fails on a closed transport or when the
\* device rejects the channel; then the deferred local.Close() runs
FwdOpenChannel(k, accepted) ==
    /\ fconn[k].pc = "open"
    /\ IF ~conn[fwd[fconn[k].fwd].conn].closed /\ accepted
       THEN fconn' = [fconn EXCEPT ![k].pc = "copy"]
       ELSE fconn' = [fconn EXCEPT ![k].pc = "done", ![k].localOpen = FALSE]
    /\ UNCHANGED <<offServer, listener, ctxDone, wg, mu, connections, inUse, panicked, startPc, acceptPc, sdPc, conn, fwd>>

\* the external client writes its next byte to the connection it opened to
\* the forwarded port
ExternalWrite(k) ==
    /\ fconn[k].pc \in {"open", "copy"}
    /\ fconn[k].localOpen
    /\ ~fconn[k].l2cDone
    /\ Len(fconn[k].written) < MaxBytes
    /\ fconn' = [fconn EXCEPT ![k].written = Append(@, Upload[Len(@) + 1]),
                              ![k].buf = Append(@, Upload[Len(fconn[k].written) + 1])]
    /\ UNCHANGED <<offServer, listener, ctxDone, wg, mu, connections, inUse, panicked, startPc, acceptPc, sdPc, conn, fwd>>

\* io.Copy(ch, local) moves the next byte from the socket to the channel
FwdCopyToChannel(k) ==
    /\ fconn[k].pc = "copy"
    /\ ~fconn[k].l2cDone
    /\ fconn[k].buf # <<>>
    /\ ~conn[fwd[fconn[k].fwd].conn].closed
    /\ fconn' = [fconn EXCEPT ![k].buf = Tail(@),
                              ![k].toDevice = Append(@, Head(fconn[k].buf))]
    /\ UNCHANGED <<offServer, listener, ctxDone, wg, mu, connections, inUse, panicked, startPc, acceptPc, sdPc, conn, fwd>>

\* channel types the device's Client registers a handler for
\* (c.client.HandleChannelOpen is never called)
DeviceChannelHandlers == {}

\* the reply of the device's SSH client, made by ssh.Dial in doConnect, to a
\* channel the server opens: a type without a registered handler is rejected
DeviceAcceptsChannel(chanType) == chanType \in DeviceChannelHandlers

\* io.Copy(ch, local) ends: the external client closed or reset its side
FwdLocalEOF(k) ==
    /\ fconn[k].pc = "copy"
    /\ ~fconn[k].l2cDone
    /\ fconn' = [fconn EXCEPT ![k].l2cDone = TRUE]
    /\ UNCHANGED <<offServer, listener, ctxDone, wg, mu, connections, inUse, panicked, startPc, acceptPc, sdPc, conn, fwd>>

\* io.Copy(local, ch) ends: the device closed its side of the channel
FwdChannelEOF(k) ==
    /\ fconn[k].pc = "copy"
    /\ ~fconn[k].c2lDone
    /\ ~conn[fwd[fconn[k].fwd].conn].closed
    /\ fconn' = [fconn EXCEPT ![k].c2lDone = TRUE]
    /\ UNCHANGED <<offServer, listener, ctxDone, wg, mu, connections, inUse, panicked, startPc, acceptPc, sdPc, conn, fwd>>

\* io.Copy(local, ch) ends: the transport under the channel is closed
FwdChannelClosed(k) ==
    /\ fconn[k].pc = "copy"
    /\ ~fconn[k].c2lDone
    /\ conn[fwd[fconn[k].fwd].conn].closed
    /\ fconn' = [fconn EXCEPT ![k].c2lDone = TRUE]
    /\ UNCHANGED <<offServer, listener, ctxDone, wg, mu, connections, inUse, panicked, startPc, acceptPc, sdPc, conn, fwd>>

\* wg.Wait() returns; the deferred ch.Close() and local.Close() run
FwdFinish(k) ==
    /\ fconn[k].pc = "copy"
    /\ fconn[k].l2cDone
    /\ fconn[k].c2lDone
    /\ fconn' = [fconn EXCEPT ![k].pc = "done", ![k].localOpen = FALSE]
    /\ UNCHANGED <<offServer, listener, ctxDone, wg, mu, connections, inUse, panicked, startPc, acceptPc, sdPc, conn, fwd>>

(***************************************************************************)
(* Server.Shutdown                                                         *)
(***************************************************************************)
\* s.cancelFunc()
ShutdownCancel(i) ==
    /\ sdPc[i] = "idle"
    /\ \A j \in ShutdownIds : j < i => sdPc[j] # "idle"
    /\ ctxDone' = TRUE
    /\ sdPc' = [sdPc EXCEPT ![i] = "closeListener"]
    /\ UNCHANGED <<offServer, listener, wg, mu, connections, inUse, panicked, startPc, acceptPc, conn, fwd, fconn>>

\* if s.listener != nil { s.listener.Close() }
ListenerClose(l) ==
    [listener |-> IF l = "nil" THEN "nil" ELSE "closed", panic |-> FALSE]

ShutdownCloseListener(i) ==
    /\ sdPc[i] = "closeListener"
    /\ listener' = ListenerClose(listener).listener
    /\ panicked' = (panicked \/ ListenerClose(listener).panic)
    /\ sdPc' = [sdPc EXCEPT ![i] = "closeConns"]
    /\ UNCHANGED <<offServer, ctxDone, wg, mu, connections, inUse, startPc, acceptPc, conn, fwd, fconn>>

RECURSIVE CloseAll(_, _)
\* for _, conn := range s.connections { conn.Connection.Close() }
CloseAll(cs, ids) ==
    IF ids = {} THEN cs
    ELSE LET c == CHOOSE x \in ids : TRUE
         IN CloseAll(CloseConn(cs, c, "shutdown"), ids \ {c})

\* s.mu.Lock(); close every connection of the map; s.mu.Unlock()
ShutdownCloseConns(i) ==
    /\ sdPc[i] = "closeConns"
    /\ mu = "free"
    /\ conn' = CloseAll(conn, {connections[d] : d \in DOMAIN connections})
    /\ sdPc' = [sdPc EXCEPT ![i] = "wait"]
    /\ UNCHANGED <<offServer, listener, ctxDone, wg, mu, connections, inUse, panicked, startPc, acceptPc, fwd, fconn>>

\* s.wg.Wait() returns
ShutdownWait(i) ==
    /\ sdPc[i] = "wait"
    /\ wg = 0
    /\ sdPc' = [sdPc EXCEPT ![i] = "returned"]
    /\ UNCHANGED <<offServer, listener, ctxDone, wg, mu, connections, inUse, panicked, startPc, acceptPc, conn, fwd, fconn>>

(***************************************************************************)
(* PortManager called directly: AllocatePort and ReleasePort by any caller *)
(***************************************************************************)
\* the ports a caller may hand to ReleasePort: in the range, next to it, and 0
ReleaseArgs == ((startPort - 1)..(endPort + 1)) \cup {NoPort}

\* the record of a call, without the call before it
CallOnly(call) == [f \in {"op", "arg", "before", "port", "ok"} |-> call[f]]

\* a call of AllocatePort (the whole call runs under PortManager.mu)
PMAllocate ==
    /\ LET r == AllocatePort(inUse)
       IN  /\ inUse' = r.inUse
           /\ pmCall' = [op |-> "AllocatePort", arg |-> NoPort, before |-> inUse,
                         port |-> r.port, ok |-> r.ok, prev |-> CallOnly(pmCall)]
    /\ UNCHANGED <<listener, ctxDone, wg, mu, connections, panicked, startPc, acceptPc,
                   sdPc, conn, fwd, fconn, dtc, devices, cmdCall, hostKey>>

\* a call of ReleasePort(port) (the whole call runs under PortManager.mu)
PMRelease(port) ==
    /\ inUse' = ReleasePort(inUse, port)
    /\ pmCall' = [op |-> "ReleasePort", arg |-> port, before |-> inUse,
                  port |-> NoPort, ok |-> TRUE, prev |-> CallOnly(pmCall)]
    /\ UNCHANGED <<listener, ctxDone, wg, mu, connections, panicked, startPc, acceptPc,
                   sdPc, conn, fwd, fconn, dtc, devices, cmdCall, hostKey>>

(***************************************************************************)
(* Device client (agent/ssh Client): Connect, Disconnect, connectionLoop   *)
(***************************************************************************)
\* the state outside the Client object
offClient == <<listener, ctxDone, wg, mu, connections, inUse, panicked, startPc,
               acceptPc, sdPc, conn, fwd, fconn, pmCall, devices, cmdCall, hostKey>>

Min2(a, b) == IF a < b THEN a ELSE b

\* select { case c.reconnectCh <- struct{}{}: default: } with the signal lost
TrySendDropped(ch) == ch

\* select { case c.reconnectCh <- struct{}{}: default: } on the channel of
\* capacity 1: afterwards a signal is buffered
TrySend(ch) == IF ch = 0 THEN 1 ELSE ch

\* backoff = backoff * 2
BackoffDoubled(b) == b * 2

\* if backoff > maxBackoff { backoff = maxBackoff }
BackoffCapped(b) == IF b > maxBackoff THEN maxBackoff ELSE b

\* the backoff left as it is by a successful connect
BackoffKept(b) == b

\* backoff = 5 * time.Second after doConnect returned nil
BackoffAfterSuccess(b) == baseBackoff

\* a close of c.client that leaves c.connected as it was
ClientClosedKeepsFlag(d) == [d EXCEPT !.client = "nil", !.link = "none"]

\* closeConnection's and the keepalive error path's close of c.client
ClientClosed(d) == [d EXCEPT !.client = "nil", !.link = "none", !.connected = FALSE]

\* connectionLoop goroutine l
LoopOf(d, l) ==
    IF l = 1
    THEN [pc |-> d.loopPc, lastReconnectAttempt |-> d.lastReconnectAttempt,
          backoff |-> d.backoff, tSpawned |-> d.tSpawned]
    ELSE d.loop2

\* the client with connectionLoop goroutine l at lp
WithLoop(d, l, lp) ==
    IF l = 1
    THEN [d EXCEPT !.loopPc = lp.pc, !.lastReconnectAttempt = lp.lastReconnectAttempt,
                   !.backoff = lp.backoff, !.tSpawned = lp.tSpawned]
    ELSE [d EXCEPT !.loop2 = lp]

\* Client.Connect up to go c.connectionLoop(): take the lock, return when
\* connected, otherwise start a connectionLoop goroutine (l); the lock stays
\* held, and the new goroutine runs its select without it
ConnectBy(l) ==
    /\ dtc.mu = "free"
    /\ dtc' = IF dtc.connected
              THEN [dtc EXCEPT !.connectPc = "returned"]
              ELSE WithLoop([dtc EXCEPT !.mu = "Connect"], l,
                            [LoopOf(dtc, l) EXCEPT !.pc = "select"])
    /\ UNCHANGED offClient

\* the rest of Client.Connect: the non-blocking send on c.reconnectCh, the
\* deferred unlock and the return
ConnectSignal ==
    /\ dtc.mu = "Connect"
    /\ dtc' = [dtc EXCEPT !.reconnectCh = TrySend(dtc.reconnectCh), !.mu = "free",
                          !.connectPc = "returned"]
    /\ UNCHANGED offClient

\* Client.Connect, called once by the agent's main
Connect ==
    /\ dtc.connectPc = "init"
    /\ ConnectBy(1)

\* Client.Connect called once more before Disconnect
ConnectAgain ==
    /\ dtc.connectPc = "returned"
    /\ dtc.discPc = "idle"
    /\ LoopOf(dtc, 2).pc = "none"
    /\ ConnectBy(2)

\* Client.Disconnect: c.cancelFunc(), called by main after Connect
DisconnectCancel ==
    /\ dtc.discPc = "idle"
    /\ dtc.connectPc = "returned"
    /\ dtc' = [dtc EXCEPT !.ctxDone = TRUE, !.discPc = "wait"]
    /\ UNCHANGED offClient

\* Client.Disconnect: <-c.done
DisconnectReturn ==
    /\ dtc.discPc = "wait"
    /\ dtc.done
    /\ dtc' = [dtc EXCEPT !.discPc = "returned"]
    /\ UNCHANGED offClient

\* connectionLoop's select takes case <-c.reconnectCh (taken at random when
\* c.ctx.Done() is ready too)
LoopRecvBy(l) ==
    /\ LoopOf(dtc, l).pc = "select"
    /\ dtc.reconnectCh = 1
    /\ dtc' = WithLoop([dtc EXCEPT !.reconnectCh = 0], l, [LoopOf(dtc, l) EXCEPT !.pc = "recv"])
    /\ UNCHANGED offClient

LoopRecv == LoopRecvBy(1)

\* less than backoff has passed since the last attempt: time.Sleep
LoopSleepBy(l) ==
    /\ LoopOf(dtc, l).pc = "recv"
    /\ LoopOf(dtc, l).lastReconnectAttempt = "set"
    /\ dtc' = WithLoop(dtc, l, [LoopOf(dtc, l) EXCEPT !.pc = "sleep"])
    /\ UNCHANGED offClient

LoopSleep == LoopSleepBy(1)

\* lastReconnectAttempt = time.Now() and the call of doConnect, after the sleep
\* or without one
LoopAttemptBy(l) ==
    /\ LoopOf(dtc, l).pc \in {"recv", "sleep"}
    /\ dtc' = WithLoop([dtc EXCEPT !.backoffAtDial = LoopOf(dtc, l).backoff], l,
                       [LoopOf(dtc, l) EXCEPT !.pc = "doConnect",
                                              !.lastReconnectAttempt = "set"])
    /\ UNCHANGED offClient

LoopAttempt == LoopAttemptBy(1)

\* doConnect: lock, close any existing connection, load the private key; on a
\* key error return it, otherwise go on to ssh.Dial with the lock held
DoConnectLockBy(l, keyOk) ==
    /\ LoopOf(dtc, l).pc = "doConnect"
    /\ dtc.mu = "free"
    /\ LET d == [(IF dtc.client # "nil" THEN ClientClosed(dtc) ELSE dtc) EXCEPT !.lost = FALSE]
       IN  IF keyOk
           THEN dtc' = WithLoop([d EXCEPT !.mu = "doConnect"], l,
                                [LoopOf(dtc, l) EXCEPT !.pc = "dial"])
           ELSE /\ dtc.fails < MaxFails
                /\ dtc' = WithLoop([d EXCEPT !.fails = dtc.fails + 1], l,
                                   [LoopOf(dtc, l) EXCEPT !.pc = "failed"])
    /\ UNCHANGED offClient

DoConnectLock(keyOk) == DoConnectLockBy(1, keyOk)

\* ssh.Dial returns: on success c.client and c.connected are set and
\* handleConnection is started; either way the lock is released
DialReturnBy(l, ok) ==
    /\ LoopOf(dtc, l).pc = "dial"
    /\ IF ok
       THEN dtc' = WithLoop([dtc EXCEPT !.client = "set", !.link = "up", !.connected = TRUE,
                                        !.handlers = Min2(dtc.handlers + 1, MaxHandlers),
                                        !.age = 0, !.fails = 0, !.mu = "free"],
                            l, [LoopOf(dtc, l) EXCEPT !.pc = "succeeded"])
       ELSE /\ dtc.fails < MaxFails
            /\ dtc' = WithLoop([dtc EXCEPT !.fails = dtc.fails + 1, !.mu = "free"],
                               l, [LoopOf(dtc, l) EXCEPT !.pc = "failed"])
    /\ UNCHANGED offClient

DialReturn(ok) == DialReturnBy(1, ok)

\* doConnect failed: go func() { time.Sleep(backoff); ... }()
LoopSpawnTimerBy(l) ==
    /\ LoopOf(dtc, l).pc = "failed"
    /\ dtc' = WithLoop(dtc, l, [LoopOf(dtc, l) EXCEPT !.tSpawned = @ + 1, !.pc = "double"])
    /\ UNCHANGED offClient

LoopSpawnTimer == LoopSpawnTimerBy(1)

\* doConnect failed: the backoff is doubled
LoopDoubleBy(l) ==
    /\ LoopOf(dtc, l).pc = "double"
    /\ dtc' = WithLoop(dtc, l, [LoopOf(dtc, l) EXCEPT !.backoff = BackoffDoubled(@),
                                                      !.pc = "cap"])
    /\ UNCHANGED offClient

LoopDouble == LoopDoubleBy(1)

\* the doubled backoff is cut to the maximum in a second assignment; continue
LoopCapBy(l) ==
    /\ LoopOf(dtc, l).pc = "cap"
    /\ dtc' = WithLoop(dtc, l, [LoopOf(dtc, l) EXCEPT !.backoff = BackoffCapped(@),
                                                      !.pc = "select"])
    /\ UNCHANGED offClient

LoopCap == LoopCapBy(1)

\* doConnect succeeded: the backoff is reset
LoopSucceededBy(l) ==
    /\ LoopOf(dtc, l).pc = "succeeded"
    /\ dtc' = WithLoop(dtc, l, [LoopOf(dtc, l) EXCEPT !.backoff = BackoffAfterSuccess(@),
                                                      !.pc = "select"])
    /\ UNCHANGED offClient

LoopSucceeded == LoopSucceededBy(1)

\* connectionLoop's select takes case <-c.ctx.Done()
LoopCancelBy(l) ==
    /\ LoopOf(dtc, l).pc = "select"
    /\ dtc.ctxDone
    /\ dtc' = WithLoop(dtc, l, [LoopOf(dtc, l) EXCEPT !.pc = "close"])
    /\ UNCHANGED offClient

LoopCancel == LoopCancelBy(1)

\* the process after a panic: no goroutine is left
Crashed(d) ==
    [d EXCEPT !.loopPc = "crashed", !.tSpawned = 0, !.loop2 = [@ EXCEPT !.pc = "crashed", !.tSpawned = 0],
              !.tSleep = 0, !.tSend = 0, !.handlers = 0, !.kaPc = "none", !.mu = "free",
              !.connectPc = "crashed", !.discPc = "crashed", !.pf = [@ EXCEPT !.pc = "none"],
              !.pfc = "none"]

\* c.closeConnection(): lock, close the client, unlock
LoopCloseConnectionBy(l) ==
    /\ LoopOf(dtc, l).pc = "close"
    /\ dtc.mu = "free"
    /\ dtc' = WithLoop(ClientClosed(dtc), l, [LoopOf(dtc, l) EXCEPT !.pc = "closed"])
    /\ UNCHANGED offClient

LoopCloseConnection == LoopCloseConnectionBy(1)

\* return: the deferred close(c.done), which panics when c.done is closed already
LoopReturnBy(l) ==
    /\ LoopOf(dtc, l).pc = "closed"
    /\ dtc' = IF dtc.done
              THEN Crashed([dtc EXCEPT !.doneCloses = @ + 1])
              ELSE WithLoop([dtc EXCEPT !.done = TRUE, !.doneCloses = @ + 1],
                            l, [LoopOf(dtc, l) EXCEPT !.pc = "returned"])
    /\ UNCHANGED offClient

LoopReturn == LoopReturnBy(1)

\* the reschedule goroutine reads backoff for its time.Sleep; the read is not
\* ordered with connectionLoop's two assignments, so it sees the old value, the
\* doubled one or the capped one
TimerStartBy(l) ==
    /\ LoopOf(dtc, l).tSpawned > 0
    /\ dtc' = WithLoop([dtc EXCEPT !.tSleep = dtc.tSleep + 1,
                                   !.timerSleep = LoopOf(dtc, l).backoff],
                       l, [LoopOf(dtc, l) EXCEPT !.tSpawned = @ - 1])
    /\ UNCHANGED offClient

TimerStart == TimerStartBy(1)

\* the reschedule goroutine's time.Sleep is over
TimerWake ==
    /\ dtc.tSleep > 0
    /\ dtc' = [dtc EXCEPT !.tSleep = dtc.tSleep - 1, !.tSend = dtc.tSend + 1]
    /\ UNCHANGED offClient

\* the reschedule goroutine's select takes case c.reconnectCh <- struct{}{}
TimerSend ==
    /\ dtc.tSend > 0
    /\ dtc.reconnectCh = 0
    /\ dtc' = [dtc EXCEPT !.tSend = dtc.tSend - 1, !.reconnectCh = 1]
    /\ UNCHANGED offClient

\* the reschedule goroutine's select takes case <-c.ctx.Done()
TimerCancel ==
    /\ dtc.tSend > 0
    /\ dtc.ctxDone
    /\ dtc' = [dtc EXCEPT !.tSend = dtc.tSend - 1]
    /\ UNCHANGED offClient

(***************************************************************************)
(* Client.handleConnection: the keepalive                                  *)
(***************************************************************************)
\* case <-ticker.C with c.client set: lock and SendRequest("keepalive@edgetainer",
\* true, nil), which returns only on a reply or a transport error.  (With
\* c.client nil the handler locks, unlocks and is back at its select.)
HandlerTick ==
    /\ dtc.handlers > 0
    /\ dtc.mu = "free"
    /\ dtc.client # "nil"
    /\ dtc' = [dtc EXCEPT !.handlers = dtc.handlers - 1, !.mu = "handleConnection",
                          !.kaPc = "sent", !.kaWaited = 0]
    /\ UNCHANGED offClient

\* the peer's reply arrives: SendRequest returns without error; unlock
KeepaliveReply ==
    /\ dtc.kaPc = "sent"
    /\ dtc.link = "up"
    /\ dtc' = [dtc EXCEPT !.kaPc = "none", !.mu = "free",
                          !.handlers = Min2(dtc.handlers + 1, MaxHandlers)]
    /\ UNCHANGED offClient

\* SendRequest returns an error: close, mark disconnected, signal a reconnect
KeepaliveError ==
    /\ dtc.kaPc = "sent"
    /\ dtc.link = "broken"
    /\ dtc' = [ClientClosed(dtc) EXCEPT !.kaPc = "none", !.mu = "free", !.lost = TRUE,
                                        !.reconnectCh = TrySend(dtc.reconnectCh),
                                        !.handlers = Min2(dtc.handlers + 1, MaxHandlers)]
    /\ UNCHANGED offClient

\* the transport fails or the peer closes it (a supersession by the server too)
LinkBreaks ==
    /\ dtc.link = "up"
    /\ dtc' = [dtc EXCEPT !.link = "broken"]
    /\ UNCHANGED offClient

\* handleConnection's select takes case <-c.ctx.Done(): closeConnection, return
HandlerCancel ==
    /\ dtc.handlers > 0
    /\ dtc.ctxDone
    /\ dtc.mu = "free"
    /\ dtc' = [ClientClosed(dtc) EXCEPT !.handlers = dtc.handlers - 1]
    /\ UNCHANGED offClient

\* one ticker period (30s) passes: the connection gets older, an outstanding
\* keepalive waits longer
TickerPeriod ==
    /\ \/ dtc.connected /\ dtc.age < CapTicks
       \/ dtc.kaPc = "sent" /\ dtc.kaWaited < MaxWait
    /\ dtc' = [dtc EXCEPT
                 !.age = IF dtc.connected THEN Min2(dtc.age + 1, CapTicks) ELSE dtc.age,
                 !.kaWaited = IF dtc.kaPc = "sent" THEN Min2(dtc.kaWaited + 1, MaxWait)
                              ELSE dtc.kaWaited]
    /\ UNCHANGED offClient

(***************************************************************************)
(* Client.SendHeartbeat                                                    *)
(***************************************************************************)
\* the status strings and metrics a caller passes: no metrics, a map of
\* numbers, a map holding a NaN (which encoding/json refuses)
Statuses == {"online", "degraded"}

MetricsInputs == {"nil", "numbers", "NaN"}

\* protocol.NewHeartbeat and the fields SendHeartbeat sets
NewHeartbeat(deviceID, status, metrics) ==
    [DeviceID |-> deviceID, Status |-> status, Timestamp |-> "now", IP |-> "local-ip",
     Version |-> "dev", Metrics |-> IF metrics = "nil" THEN "empty" ELSE metrics,
     Containers |-> "empty"]

\* json.Marshal of a Heartbeat: members by their json names, metrics and
\* containers left out when empty; an error on a value JSON cannot carry
Marshal(h) ==
    IF h.Metrics = "NaN"
    THEN [ok |-> FALSE, data |-> <<>>]
    ELSE [ok |-> TRUE,
          data |-> [m \in {"device_id", "status", "timestamp", "ip", "version"}
                          \cup (IF h.Metrics = "empty" THEN {} ELSE {"metrics"})
                          \cup (IF h.Containers = "empty" THEN {} ELSE {"containers"}) |->
                    CASE m = "device_id" -> h.DeviceID
                      [] m = "status" -> h.Status
                      [] m = "timestamp" -> h.Timestamp
                      [] m = "ip" -> h.IP
                      [] m = "version" -> h.Version
                      [] m = "metrics" -> h.Metrics
                      [] m = "containers" -> h.Containers]]

\* SendHeartbeat without the connected check
HeartbeatOutcomeUnchecked(d, status, metrics) ==
    LET m == Marshal(NewHeartbeat(ClientDeviceID, status, metrics))
    IN  IF ~m.ok THEN [result |-> "marshal error", requests |-> <<>>]
        ELSE [result |-> IF d.link = "up" THEN "ok" ELSE "send error",
              requests |-> << [name |-> "heartbeat@edgetainer", wantReply |-> FALSE,
                               payload |-> m.data] >>]

\* what SendHeartbeat returns and what it hands to c.client.SendRequest
HeartbeatOutcome(d, status, metrics) ==
    LET m == Marshal(NewHeartbeat(ClientDeviceID, status, metrics))
    IN  IF ~m.ok THEN [result |-> "marshal error", requests |-> <<>>]
        ELSE IF ~d.connected \/ d.client = "nil"
        THEN [result |-> "not connected", requests |-> <<>>]
        ELSE [result |-> IF d.link = "up" THEN "ok" ELSE "send error",
              requests |-> << [name |-> "heartbeat@edgetainer", wantReply |-> FALSE,
                               payload |-> m.data] >>]

\* Client.SendHeartbeat(status, metrics, nil): the marshal error returns before
\* the lock is taken, the rest runs under it
SendHeartbeat(status, metrics) ==
    /\ Marshal(NewHeartbeat(ClientDeviceID, status, metrics)).ok => dtc.mu = "free"
    /\ LET o == HeartbeatOutcome(dtc, status, metrics)
       IN  dtc' = [dtc EXCEPT !.hb = [status |-> status, metrics |-> metrics,
                                      wasConnected |-> dtc.connected /\ dtc.client # "nil",
                                      result |-> o.result, requests |-> o.requests]]
    /\ UNCHANGED offClient

(***************************************************************************)
(* Client.OpenPortForward and handlePortForwardConnection                  *)
(***************************************************************************)
\* device-local ports a caller hands to OpenPortForward
LocalPorts == {8022}

\* ConnectionHandler.handleChannels on a channel the device opens: session
\* channels are accepted, every other type is rejected
HandleNewChannel(chanType) ==
    IF chanType = "session" THEN "accepted" ELSE "UnknownChannelType"

\* Client.OpenPortForward(localPort, remotePort), the whole call under c.mu:
\* not connected is an error, a net.Listen error on 127.0.0.1:localPort is an
\* error, otherwise the accept goroutine is started on the device-local
\* listener and nil is returned; no request is written to the server
OpenPortForward(localPort, remotePort, listenOk) ==
    /\ dtc.pf.result = "none"
    /\ dtc.mu = "free"
    /\ dtc' = [dtc EXCEPT !.pf =
                 IF ~dtc.connected \/ dtc.client = "nil"
                 THEN [@ EXCEPT !.result = "not connected to SSH server"]
                 ELSE IF ~listenOk
                 THEN [@ EXCEPT !.result = "failed to start local listener"]
                 ELSE [pc |-> "accept", localPort |-> localPort, remotePort |-> remotePort,
                       result |-> "nil", requests |-> <<>>]]
    /\ UNCHANGED offClient

\* the accept goroutine: listener.Accept returns a device-local connection;
\* under c.mu, a client that is not connected closes it and ends the
\* goroutine, otherwise go c.handlePortForwardConnection(conn, remotePort)
PortForwardAccept ==
    /\ dtc.pf.pc = "accept"
    /\ dtc.pfc = "none"
    /\ dtc.mu = "free"
    /\ IF ~dtc.connected \/ dtc.client = "nil"
       THEN dtc' = [dtc EXCEPT !.pf.pc = "closed"]
       ELSE dtc' = [dtc EXCEPT !.pfc = "spawned"]
    /\ UNCHANGED offClient

\* the accept goroutine: listener.Accept fails; it returns when c.connected
\* is false and tries again otherwise
PortForwardAcceptError ==
    /\ dtc.pf.pc = "accept"
    /\ ~dtc.connected
    /\ dtc' = [dtc EXCEPT !.pf.pc = "closed"]
    /\ UNCHANGED offClient

\* handlePortForwardConnection takes c.mu: it returns when not connected,
\* otherwise it calls c.client.Dial("tcp", "127.0.0.1:remotePort"), which opens
\* a direct-tcpip channel to the server and waits for the answer, lock held
PortForwardDial ==
    /\ dtc.pfc = "spawned"
    /\ dtc.mu = "free"
    /\ dtc' = IF ~dtc.connected \/ dtc.client = "nil"
              THEN [dtc EXCEPT !.pfc = "not connected"]
              ELSE [dtc EXCEPT !.pfc = "dialing", !.mu = "handlePortForwardConnection"]
    /\ UNCHANGED offClient

\* c.client.Dial returns with the server's answer to the channel-open, or with
\* an error when the transport is broken; the lock is released
PortForwardDialReturn ==
    /\ dtc.pfc = "dialing"
    /\ dtc' = [dtc EXCEPT !.mu = "free",
                          !.pfc = IF dtc.link # "up" THEN "dial failed"
                                  ELSE IF HandleNewChannel("direct-tcpip") = "accepted" THEN "copy"
                                  ELSE "dial failed"]
    /\ UNCHANGED offClient

(***************************************************************************)
(* Specifications                                                          *)
(***************************************************************************)
\* Start and the accept loop while the listener is open
StartStep ==
    \/ \E ok \in BOOLEAN : StartListen(ok)
    \/ StartSpawn
    \/ AcceptTransientError

\* connection c: handshake, registration, handler, transport failures
ConnActions(c) ==
    \/ \E cred \in Credentials : AcceptConn(c, cred)
    \/ TransportError(c)
    \/ Handshake(c)
    \/ RegisterLock(c)
    \/ RegisterInsert(c)
    \/ SpawnHandler(c)
    \/ HandleConnectionReturn(c)
    \/ HandlerExit(c)

\* global requests received on connection c
RequestActions(c) ==
    \/ \E r \in Requests : HandleRejectedRequest(c, r)
    \/ \E r \in Requests : TcpipForwardAllocate(c, r)
    \/ TcpipForwardRegister(c)
    \/ TcpipForwardReply(c)
    \/ RequestsDone(c)

\* the forwardPort goroutine f
ForwardActions(f) ==
    \/ \E ok \in BOOLEAN : ForwardListen(f, ok)
    \/ ForwardAcceptError(f)

\* the connection k accepted on a forwarded port
FwdConnActions(k) ==
    \/ \E f \in ForwardIds : ForwardAccept(f, k)
    \/ \E accepted \in BOOLEAN : FwdOpenChannel(k, accepted)
    \/ FwdLocalEOF(k)
    \/ FwdChannelEOF(k)
    \/ FwdChannelClosed(k)
    \/ FwdFinish(k)

\* the Shutdown call i
ShutdownActions(i) ==
    \/ ShutdownCancel(i)
    \/ ShutdownCloseListener(i)
    \/ ShutdownCloseConns(i)
    \/ ShutdownWait(i)

NextServer ==
    \/ StartStep
    \/ AcceptOnClosed
    \/ \E c \in ConnIds : ConnActions(c) \/ RequestActions(c)
    \/ \E f \in ForwardIds : ForwardActions(f)
    \/ \E k \in FwdConnIds : FwdConnActions(k)
    \/ \E i \in ShutdownIds : ShutdownActions(i)

\* the life cycle of any number of connections under Start and one Shutdown call
NextConn ==
    \/ StartStep
    \/ AcceptOnClosed
    \/ \E c \in ConnIds : ConnActions(c)
    \/ ShutdownActions(Min(ShutdownIds))

SpecConn == Init /\ [][NextConn]_vars

\* any number of Shutdown calls, sequential or concurrent, before, during or
\* after Start, on a server that one device connects to
NextStop ==
    \/ StartStep
    \/ AcceptOnClosed
    \/ ConnActions(Min(ConnIds))
    \/ \E i \in ShutdownIds : ShutdownActions(i)

SpecStop == Init /\ [][NextStop]_vars

\* the goroutines of SpecStop run whenever they can take a step, and the
\* Shutdown calls that have begun run on; when Start is called and what the
\* device does are left open
StopFairness ==
    /\ WF_vars(StartSpawn)
    /\ WF_vars(AcceptOnClosed)
    /\ WF_vars(Handshake(Min(ConnIds)))
    /\ WF_vars(RegisterLock(Min(ConnIds)))
    /\ WF_vars(RegisterInsert(Min(ConnIds)))
    /\ WF_vars(SpawnHandler(Min(ConnIds)))
    /\ WF_vars(HandleConnectionReturn(Min(ConnIds)))
    /\ WF_vars(HandlerExit(Min(ConnIds)))
    /\ \A i \in ShutdownIds :
          /\ WF_vars(ShutdownCloseListener(i))
          /\ WF_vars(ShutdownCloseConns(i))
          /\ WF_vars(ShutdownWait(i))

FairSpecStop == SpecStop /\ StopFairness

\* connections and their port forwards on a server that is not shut down; the
\* devices send tcpip-forward requests that parse, with or without WantReply
NextFwd ==
    \/ StartStep
    \/ \E c \in ConnIds : ConnActions(c)
    \/ \E c \in ConnIds : \E r \in Requests : TcpipForwardAllocate(c, r)
    \/ \E c \in ConnIds : TcpipForwardRegister(c) \/ TcpipForwardReply(c) \/ RequestsDone(c)
    \/ \E f \in ForwardIds : ForwardActions(f)

SpecFwd == Init /\ [][NextFwd]_vars

\* one connection with its forwards and forwarded connections, and one
\* Shutdown call
NextOne ==
    \/ StartStep
    \/ AcceptOnClosed
    \/ ConnActions(Min(ConnIds)) \/ RequestActions(Min(ConnIds))
    \/ \E f \in ForwardIds : ForwardActions(f)
    \/ \E k \in FwdConnIds : FwdConnActions(k)
    \/ ShutdownActions(Min(ShutdownIds))

SpecOne == Init /\ [][NextOne]_vars

\* main's context is cancelled, by a signal, by the goroutine that runs Start
\* when Start returned an error, or by the API server's goroutine; the
\* server's context is its child
MainCancel ==
    /\ ~ctxDone
    /\ ctxDone' = TRUE
    /\ UNCHANGED <<offServer, listener, wg, mu, connections, inUse, panicked, startPc,
                   acceptPc, sdPc, conn, fwd, fconn>>

\* main calls Shutdown once <-ctx.Done() has returned
MainShutdown(i) == ctxDone /\ ShutdownCancel(i)

\* as SpecOne, with Start and Shutdown called as main calls them: Start in a
\* goroutine of its own, Shutdown after the context was cancelled
NextSeq ==
    \/ StartStep
    \/ AcceptOnClosed
    \/ ConnActions(Min(ConnIds)) \/ RequestActions(Min(ConnIds))
    \/ \E f \in ForwardIds : ForwardActions(f)
    \/ \E k \in FwdConnIds : FwdConnActions(k)
    \/ MainCancel
    \/ MainShutdown(Min(ShutdownIds))
    \/ ShutdownCloseListener(Min(ShutdownIds))
    \/ ShutdownCloseConns(Min(ShutdownIds))
    \/ ShutdownWait(Min(ShutdownIds))

SpecSeq == Init /\ [][NextSeq]_vars

\* The Go scheduler runs every goroutine that can take a step, and a call
\* that does not block returns.  Nothing is assumed of what the callers of
\* Start and Shutdown, the operating system, the devices and the external
\* clients decide to do.
Fairness ==
    /\ WF_vars(StartSpawn)
    /\ WF_vars(AcceptOnClosed)
    /\ \A c \in ConnIds :
          /\ WF_vars(Handshake(c))
          /\ WF_vars(RegisterLock(c))
          /\ WF_vars(RegisterInsert(c))
          /\ WF_vars(SpawnHandler(c))
          /\ WF_vars(HandleConnectionReturn(c))
          /\ WF_vars(HandlerExit(c))
          /\ WF_vars(RequestsDone(c))
          /\ WF_vars(TcpipForwardRegister(c))
          /\ WF_vars(TcpipForwardReply(c))
    /\ \A f \in ForwardIds : WF_vars(\E ok \in BOOLEAN : ForwardListen(f, ok))
    /\ \A k \in FwdConnIds :
          /\ WF_vars(\E accepted \in BOOLEAN : FwdOpenChannel(k, accepted))
          /\ WF_vars(FwdChannelClosed(k))
          /\ WF_vars(FwdFinish(k))
    /\ \A i \in ShutdownIds :
          /\ WF_vars(ShutdownCloseListener(i))
          /\ WF_vars(ShutdownCloseConns(i))
          /\ WF_vars(ShutdownWait(i))

FairSpecOne == SpecOne /\ Fairness

\* the PortManager under any sequence of AllocatePort and ReleasePort calls
NextBroker ==
    \/ PMAllocate
    \/ \E port \in ReleaseArgs : PMRelease(port)

SpecBroker == Init /\ [][NextBroker]_vars

\* the steps of the device client's own goroutines
DtcProgramStep ==
    \/ LoopRecv \/ LoopSleep \/ LoopAttempt
    \/ \E keyOk \in BOOLEAN : DoConnectLock(keyOk)
    \/ \E ok \in BOOLEAN : DialReturn(ok)
    \/ LoopSpawnTimer \/ LoopDouble \/ LoopCap \/ LoopSucceeded
    \/ LoopCancel \/ LoopCloseConnection \/ LoopReturn
    \/ TimerStart \/ TimerWake \/ TimerSend \/ TimerCancel
    \/ HandlerTick \/ KeepaliveError \/ HandlerCancel

\* the device client between Connect and Disconnect, its peer and the clock
NextDtc ==
    \/ Connect
    \/ ConnectSignal
    \/ DisconnectCancel
    \/ DisconnectReturn
    \/ DtcProgramStep
    \/ KeepaliveReply
    \/ LinkBreaks
    \/ TickerPeriod

SpecDtc == Init /\ [][NextDtc]_vars

\* what the Go runtime guarantees the device client's goroutines: a goroutine
\* that can run does run (WF); a select with several ready cases picks each of
\* them sooner or later, a blocked channel send and a blocked Lock are served
\* once the channel or mutex keeps becoming free (SF).  ssh.Dial is given a
\* Timeout and SendRequest on a broken transport returns its error.  Nothing is
\* assumed of the peer's replies, of transport failures, of the passing of
\* time or of the moment main calls Disconnect.
DtcFairness ==
    /\ SF_vars(LoopRecv) /\ SF_vars(LoopCancel)
    /\ WF_vars(LoopAttempt)
    /\ SF_vars(\E keyOk \in BOOLEAN : DoConnectLock(keyOk))
    /\ WF_vars(\E ok \in BOOLEAN : DialReturn(ok))
    /\ WF_vars(LoopSpawnTimer) /\ WF_vars(LoopDouble) /\ WF_vars(LoopCap)
    /\ WF_vars(LoopSucceeded)
    /\ SF_vars(LoopCloseConnection) /\ WF_vars(LoopReturn)
    /\ WF_vars(TimerStart) /\ WF_vars(TimerWake)
    /\ SF_vars(TimerSend) /\ SF_vars(TimerCancel)
    /\ SF_vars(HandlerTick) /\ SF_vars(HandlerCancel)
    /\ WF_vars(KeepaliveError)
    /\ WF_vars(DisconnectReturn)
    /\ WF_vars(ConnectSignal)

\* the device client between Connect and Disconnect and its peer, without the
\* clock that measures connection age and keepalive waiting time
NextReconnect ==
    \/ Connect
    \/ ConnectSignal
    \/ DisconnectCancel
    \/ DisconnectReturn
    \/ DtcProgramStep
    \/ KeepaliveReply
    \/ LinkBreaks

FairSpecReconnect == Init /\ [][NextReconnect]_vars /\ DtcFairness

\* the device client with SendHeartbeat called at any time
NextHeartbeat ==
    \/ Connect
    \/ ConnectSignal
    \/ DisconnectCancel
    \/ DisconnectReturn
    \/ DtcProgramStep
    \/ KeepaliveReply
    \/ LinkBreaks
    \/ \E status \in Statuses, metrics \in MetricsInputs : SendHeartbeat(status, metrics)

SpecHeartbeat == Init /\ [][NextHeartbeat]_vars

\* one step of connectionLoop goroutine l or of a reschedule goroutine it started
LoopStep(l) ==
    \/ LoopRecvBy(l) \/ LoopSleepBy(l) \/ LoopAttemptBy(l)
    \/ \E keyOk \in BOOLEAN : DoConnectLockBy(l, keyOk)
    \/ \E ok \in BOOLEAN : DialReturnBy(l, ok)
    \/ LoopSpawnTimerBy(l) \/ LoopDoubleBy(l) \/ LoopCapBy(l) \/ LoopSucceededBy(l)
    \/ LoopCancelBy(l) \/ LoopCloseConnectionBy(l) \/ LoopReturnBy(l)
    \/ TimerStartBy(l)

\* the device client whose caller calls Connect a second time before
\* Disconnect, in the time before the first keepalive tick
NextConnects ==
    \/ Connect
    \/ ConnectSignal
    \/ ConnectAgain
    \/ DisconnectCancel
    \/ DisconnectReturn
    \/ \E l \in LoopIds : LoopStep(l)
    \/ TimerWake \/ TimerSend \/ TimerCancel
    \/ HandlerCancel

SpecConnects == Init /\ [][NextConnects]_vars

\* starts of the server on one host key path
NextHostKey ==
    \/ \E outcome \in GenerateOutcomes : NewServer(outcome)
    \/ \E f \in {KeyFile(OperatorKey), GarbageFile} : OperatorInstalls(f)
    \/ Chmod

SpecHostKey == Init /\ [][NextHostKey]_vars

\* heartbeats of one device arriving over its connection and over HTTP, and
\* the device API called at any time
NextLastSeen ==
    \/ StartStep
    \/ ConnActions(Min(ConnIds))
    \/ RequestsDone(Min(ConnIds))
    \/ \E ts \in Timestamps : HandleHeartbeatRequest(Min(ConnIds), ts)
    \/ \E method \in HttpMethods, decodes \in BOOLEAN, ts \in Timestamps :
          handleAgentHeartbeat(method, decodes, "devA", ts)
    \/ \E r \in DeviceByIDRequests : handleDeviceByID(r.method, r.deviceID, r.body, r.dbOk)
    \/ \E r \in DevicesRequests : handleDevices(r.method, r.body, r.dbOk)
    \/ \E r \in ProvisionRequests : handleDeviceProvisioning(r, MaxTimestamp)

SpecLastSeen == Init /\ [][NextLastSeen]_vars

\* SendCommand called at any time on a server that one device connects to
NextCommand ==
    \/ StartStep
    \/ ConnActions(Min(ConnIds))
    \/ \E deviceID \in CommandTargets, cmdType \in CommandTypes :
          SendCommand(deviceID, NewCommand(Len(cmdCall) + 1, cmdType))

SpecCommand == Init /\ [][NextCommand]_vars

\* the device client with OpenPortForward called at any time; the server
\* is present as the answer of handleChannels to the channels the client opens
NextPortForward ==
    \/ NextReconnect
    \/ \E localPort \in LocalPorts, remotePort \in BindPorts, listenOk \in BOOLEAN :
          OpenPortForward(localPort, remotePort, listenOk)
    \/ PortForwardAccept
    \/ PortForwardAcceptError
    \/ PortForwardDial
    \/ PortForwardDialReturn

\* a handlePortForwardConnection goroutine gets c.mu and dials; whether
\* OpenPortForward is called and when a device-local connection arrives is up
\* to the caller and to the peer
PortForwardFairness == SF_vars(PortForwardDial) /\ WF_vars(PortForwardDialReturn)

FairSpecPortForward ==
    Init /\ [][NextPortForward]_vars /\ DtcFairness /\ PortForwardFairness

\* one connection of a device whose SSH client is the repository's Client,
\* its forwards, and external clients that connect to them and write
NextBytes ==
    \/ StartStep
    \/ ConnActions(Min(ConnIds)) \/ RequestActions(Min(ConnIds))
    \/ \E f \in ForwardIds : ForwardActions(f)
    \/ \E k \in FwdConnIds :
          \/ \E f \in ForwardIds : ForwardAccept(f, k)
          \/ ExternalWrite(k)
          \/ FwdOpenChannel(k, DeviceAcceptsChannel("direct-tcpip"))

SpecBytes == Init /\ [][NextBytes]_vars

\* one connection and its forwards on a server whose PortManager is also
\* called directly
NextExhaust ==
    \/ StartStep
    \/ ConnActions(Min(ConnIds)) \/ RequestActions(Min(ConnIds))
    \/ \E f \in ForwardIds : ForwardActions(f)
    \/ PMAllocate

SpecExhaust == Init /\ [][NextExhaust]_vars

\* the server, the PortManager's direct callers and the device client together
Next ==
    \/ NextServer
    \/ NextBroker
    \/ NextDtc
    \/ \E status \in Statuses, metrics \in MetricsInputs : SendHeartbeat(status, metrics)
    \/ NextLastSeen
    \/ NextCommand
    \/ NextPortForward
    \/ \E k \in FwdConnIds : ExternalWrite(k) \/ FwdCopyToChannel(k)
    \/ NextConnects
    \/ NextHostKey

Spec == Init /\ [][Next]_vars

(***************************************************************************)
(* Properties                                                              *)
(***************************************************************************)
\* connection c has been recorded in the connection map
Recorded(c) == conn[c].pc \in {"registered", "spawned", "returned"}

\* forward f holds its port: allocated and not yet released
Holding(f) == fwd[f].pc \in {"listen", "accept"}

\* C1: whenever the map can be read (s.mu is free), every connection that was
\* recorded and whose transport is still open is the one the map holds for
\* its device: a device has at most one open recorded connection, and a
\* superseded connection is closed before its successor is visible.
C1_SupersededClosedBeforeVisible ==
    mu = "free" =>
        \A c \in ConnIds :
            (Recorded(c) /\ ~conn[c].closed) =>
                /\ GetDeviceConnection(conn[c].deviceID).ok
                /\ GetDeviceConnection(conn[c].deviceID).conn = {c}

\* a later handshake of the same device replaced an open recorded connection
C1_Witness ==
    \E c1, c2 \in ConnIds :
        /\ c1 # c2
        /\ mu = "free"
        /\ Recorded(c1) /\ Recorded(c2)
        /\ conn[c1].deviceID = conn[c2].deviceID
        /\ conn[c1].cause = "superseded"
        /\ GetDeviceConnection(conn[c2].deviceID).conn = {c2}

\* C2: every entry of the connection map is a connection whose handshake used
\* public-key authentication with the entry's device_id as user name, for a
\* device the Directory holds, with a key whose SHA-256 fingerprint equals
\* that of the stored key; no other handshake is ever recorded.
C2_RecordedOnlyIfAuthentic ==
    /\ \A d \in DOMAIN connections :
          LET cred == conn[connections[d]].cred
          IN /\ cred.user = d
             /\ cred.method = "publickey"
             /\ DeviceFound(d)
             /\ ParseAuthorizedKey(Directory[d].SSHPublicKey) # ParseError
             /\ FingerprintSHA256(cred.key) =
                   FingerprintSHA256(ParseAuthorizedKey(Directory[d].SSHPublicKey))
    /\ \A c \in ConnIds :
          (Recorded(c) \/ conn[c].pc \in {"register", "locked"}) =>
              /\ conn[c].cred.method = "publickey"
              /\ DeviceFound(conn[c].cred.user)
              /\ conn[c].deviceID = conn[c].cred.user

\* a handshake with a mismatching key was refused while a device is recorded
C2_Witness ==
    /\ DOMAIN connections # {}
    /\ \E c \in ConnIds :
          /\ conn[c].pc = "failed"
          /\ conn[c].cause = "handshake"
          /\ conn[c].cred.method = "publickey"
          /\ DeviceFound(conn[c].cred.user)
          /\ conn[c].cred.key # ParseAuthorizedKey(Directory[conn[c].cred.user].SSHPublicKey)
          /\ \A d \in DOMAIN connections : connections[d] # c

\* C3: the transport of a recorded connection is closed only by a teardown
\* event: a transport error, supersession, or Shutdown.
C3_ClosedOnlyByTeardown ==
    \A c \in ConnIds :
        (Recorded(c) /\ conn[c].closed) =>
            conn[c].cause \in {"transport", "superseded", "shutdown"}

\* C4: once the handler of a connection has exited, GetDeviceConnection no
\* longer returns that connection.
C4_NoEntryAfterHandlerExit ==
    mu = "free" =>
        \A c \in ConnIds :
            conn[c].hPc = "done" => GetDeviceConnection(conn[c].deviceID).conn # {c}

\* C5: every port held by a forward lies in the configured range, is marked
\* in use, and is held by no other forward.
C5_PortsDistinctInRange ==
    /\ inUse \subseteq PortRange
    /\ \A f1 \in ForwardIds :
          Holding(f1) =>
              /\ fwd[f1].port \in PortRange
              /\ fwd[f1].port \in inUse
              /\ \A f2 \in ForwardIds :
                    (f2 # f1 /\ Holding(f2)) => fwd[f2].port # fwd[f1].port

\* forwards of two different connections hold ports at the same time
C5_Witness ==
    \E f1, f2 \in ForwardIds :
        /\ Holding(f1) /\ Holding(f2)
        /\ fwd[f1].conn # fwd[f2].conn
        /\ fwd[f1].port # fwd[f2].port

\* C6: a forward of a connection whose handler has exited eventually ends,
\* its listener closed and its port released.
C6_ForwardEventuallyReleased ==
    \A f \in ForwardIds :
        (Holding(f) /\ conn[fwd[f].conn].hPc = "done") ~> (fwd[f].pc = "done")

\* C7: all tcpip-forward replies a device receives, on whichever of its
\* connections, carry the same port.
C7_SamePortAcrossConnections ==
    \A c1, c2 \in ConnIds :
        (c1 # c2 /\ Recorded(c1) /\ Recorded(c2) /\ conn[c1].deviceID = conn[c2].deviceID) =>
            \A p1 \in conn[c1].granted, p2 \in conn[c2].granted : p1 = p2

\* C8: every Shutdown call that has begun eventually returns.
C8_ShutdownTerminates ==
    \A i \in ShutdownIds : (sdPc[i] # "idle") ~> (sdPc[i] = "returned")

\* C9: when a Shutdown call has returned, no connection handler, request
\* loop, forwardPort or forwarded-connection task is running, and no forward
\* listener or accepted local socket is open.
C9_NothingLeftAfterShutdown ==
    (\E i \in ShutdownIds : sdPc[i] = "returned") =>
        /\ \A c \in ConnIds : conn[c].hPc # "running" /\ conn[c].reqPc \notin {"idle", "register", "reply"}
        /\ \A f \in ForwardIds : ~Holding(f) /\ fwd[f].listener # "open"
        /\ \A k \in FwdConnIds : fconn[k].pc \notin {"open", "copy"} /\ ~fconn[k].localOpen

\* the server is stopped: context cancelled, listener not open, every
\* connection of the map closed
Stopped ==
    /\ ctxDone
    /\ listener # "open"
    /\ \A d \in DOMAIN connections : conn[connections[d]].closed

\* C10: once a second Shutdown call has begun, after the first has returned
\* or while it runs, with Start called or not, every call that has begun
\* returns; no step of a Shutdown call panics; and a step of a Shutdown call
\* on a server that is already stopped changes nothing of the server but that
\* call's own position.
C10_ShutdownIdempotent ==
    /\ \A i \in ShutdownIds :
          (sdPc[i] # "idle" /\ \E j \in ShutdownIds \ {i} : sdPc[j] # "idle")
              ~> (sdPc[i] = "returned")
    /\ [][(\E i \in ShutdownIds : ShutdownActions(i)) =>
             /\ ~panicked'
             /\ Stopped => (Stopped' /\ UNCHANGED <<listener, ctxDone, wg, mu, connections, inUse,
                                                    startPc, acceptPc, conn, fwd, fconn>>)]_vars

\* C11: AllocatePort returns the lowest port of the range that was not in use
\* before the call, whenever there is one, and marks that port in use.
C11_AllocateLowestFree ==
    (pmCall.op = "AllocatePort" /\ FreePorts(pmCall.before) # {}) =>
        /\ pmCall.ok
        /\ pmCall.port \in FreePorts(pmCall.before)
        /\ \A q \in FreePorts(pmCall.before) : pmCall.port <= q
        /\ inUse = pmCall.before \cup {pmCall.port}

\* AllocatePort has skipped an in-use port and returned a port that has a free
\* port and an in-use port above it
C11_Witness ==
    /\ pmCall.op = "AllocatePort" /\ pmCall.ok
    /\ startPort \in pmCall.before
    /\ \E q \in FreePorts(pmCall.before) : q > pmCall.port
    /\ \E q \in pmCall.before : q > pmCall.port

\* C12: AllocatePort called with every port of the range in use returns an
\* error and port 0, and leaves the in-use set as it was.
C12_ExhaustedNoChange ==
    (pmCall.op = "AllocatePort" /\ PortRange \subseteq pmCall.before) =>
        /\ ~pmCall.ok
        /\ pmCall.port = NoPort
        /\ inUse = pmCall.before

\* AllocatePort has been called with the whole range in use
C12_Witness ==
    /\ pmCall.op = "AllocatePort"
    /\ PortRange \subseteq pmCall.before
    /\ ~pmCall.ok

\* C13: ReleasePort(p) called right after the AllocatePort call that returned p
\* leaves the in-use set equal to the one before that AllocatePort call.
C13_AllocateThenRelease ==
    (/\ pmCall.op = "ReleasePort"
     /\ pmCall.prev.op = "AllocatePort" /\ pmCall.prev.ok
     /\ pmCall.arg = pmCall.prev.port) => inUse = pmCall.prev.before

\* a port allocated from a non-empty in-use set has been released right away
C13_Witness ==
    /\ pmCall.op = "ReleasePort"
    /\ pmCall.prev.op = "AllocatePort" /\ pmCall.prev.ok
    /\ pmCall.arg = pmCall.prev.port
    /\ pmCall.prev.before # {}
    /\ pmCall.arg \in {startPort, endPort}

RECURSIVE Pow2(_)
Pow2(k) == IF k = 0 THEN 1 ELSE 2 * Pow2(k - 1)

\* connectionLoop is not in the middle of handling doConnect's result
LoopSettled == dtc.loopPc \notin {"failed", "double", "cap", "succeeded"}

\* C14: the backoff is 5s at the start, and once connectionLoop has handled the
\* result of a connect attempt it is min(5s * 2^k, 5m), k being the number of
\* failed attempts since the last successful one (or since the start); the
\* backoff that a cool-down sleeps never exceeds 5m.
C14_BackoffDoubledCappedReset ==
    /\ LoopSettled => dtc.backoff = Min2(baseBackoff * Pow2(dtc.fails), maxBackoff)
    /\ dtc.timerSleep <= maxBackoff

\* C15: while the client is not cancelled, the backoff is base once the Connected state has lasted the cap, and a
\* connection lost before it has lasted the cap leaves the backoff at the value
\* it had when that connection's attempt began.
C15_ResetOnlyAfterSustained ==
    (LoopSettled /\ ~dtc.ctxDone) =>
        /\ (dtc.connected /\ dtc.age >= CapTicks) => dtc.backoff = baseBackoff
        /\ (dtc.lost /\ dtc.age < CapTicks) => dtc.backoff = dtc.backoffAtDial

\* C15 as amended: the backoff is reset by the successful handshake itself; it
\* is base all the while the client is connected and after a connection has
\* been lost, however short the time that connection lasted.
C15_ResetAtHandshake ==
    LoopSettled => ((dtc.connected \/ dtc.lost) => dtc.backoff = baseBackoff)

\* a connection made with a raised backoff has been lost before it lasted the
\* cap, and the backoff is base
C15_Witness ==
    /\ dtc.loopPc = "select"
    /\ dtc.lost
    /\ dtc.age < CapTicks
    /\ dtc.backoffAtDial > baseBackoff
    /\ dtc.backoff = baseBackoff

\* C16: a Disconnect call that has cancelled the context eventually returns,
\* with connectionLoop returned.
C16_DisconnectReturns ==
    (dtc.discPc = "wait") ~> (dtc.discPc = "returned" /\ dtc.loopPc = "returned")

\* C17: once the context is cancelled, connectionLoop's select does not take
\* the reconnect signal and connectionLoop does not call doConnect.
C17_NoAttemptAfterCancel ==
    [][dtc.ctxDone =>
          /\ ~(dtc.loopPc = "select" /\ dtc'.loopPc = "recv")
          /\ ~(dtc.loopPc # "doConnect" /\ dtc'.loopPc = "doConnect")]_vars

\* a reconnect signal is buffered, Connect has started connectionLoop and is
\* at its send (client.go:67) with c.mu held, a reschedule goroutine is on its
\* way to send one, or connectionLoop is serving one
ReconnectPending ==
    \/ dtc.reconnectCh = 1
    \/ dtc.mu = "Connect"
    \/ dtc.tSpawned + dtc.tSleep + dtc.tSend > 0
    \/ dtc.loopPc \in {"recv", "sleep", "doConnect", "dial", "failed"}

\* C18: a keepalive that returned an error has left the client disconnected,
\* its connection closed and a reconnect pending; and no keepalive stays
\* unanswered for more than 30s with the client still connected.
C18_KeepaliveFailureLeavesConnected ==
    /\ dtc.lost => (~dtc.connected /\ dtc.client = "nil"
                    /\ (ReconnectPending \/ dtc.loopPc \in {"close", "closed", "returned"}))
    /\ (dtc.kaPc = "sent" /\ dtc.kaWaited * tickerInterval > tickerInterval) => ~dtc.connected

\* the loop runs, the client is not connected and not cancelled
Disconnected == dtc.loopPc # "none" /\ ~dtc.connected /\ ~dtc.ctxDone

\* C19: while the client is not cancelled and not connected, a reconnect is
\* pending or scheduled, and connectionLoop eventually calls doConnect again
\* (unless the client is cancelled first).
C19_ReconnectsUnlessCancelled ==
    /\ [](Disconnected => ReconnectPending)
    /\ Disconnected ~> (dtc.loopPc \in {"doConnect", "dial"} \/ dtc.ctxDone)

\* a connection was made and lost, an attempt after it failed, and another
\* attempt is under way
C19_Witness ==
    /\ ~dtc.ctxDone
    /\ dtc.handlers > 0
    /\ dtc.fails > 0
    /\ dtc.loopPc = "dial"

\* the last SendHeartbeat call handed exactly one heartbeat@edgetainer request
\* without reply to the connection, carrying the client's id and the status
OneHeartbeatSent ==
    /\ Len(dtc.hb.requests) = 1
    /\ dtc.hb.requests[1].name = "heartbeat@edgetainer"
    /\ ~dtc.hb.requests[1].wantReply
    /\ dtc.hb.requests[1].payload["device_id"] = ClientDeviceID
    /\ dtc.hb.requests[1].payload["status"] = dtc.hb.status

\* C20: a SendHeartbeat call made while the client was not connected returned
\* the not-connected error and sent nothing; one made while it was connected
\* sent exactly one heartbeat request with the device id and the status.
C20_HeartbeatNotConnectedOrOne ==
    dtc.hb.result # "none" =>
        IF dtc.hb.wasConnected
        THEN OneHeartbeatSent
        ELSE dtc.hb.result = "not connected" /\ dtc.hb.requests = <<>>

\* C20 as amended: a SendHeartbeat call whose metrics JSON cannot encode
\* returned the encoding error and sent nothing, connected or not; any other
\* call did as C20 says.
C20_HeartbeatUnlessUnencodable ==
    dtc.hb.result # "none" =>
        IF dtc.hb.metrics = "NaN"
        THEN dtc.hb.result = "marshal error" /\ dtc.hb.requests = <<>>
        ELSE IF dtc.hb.wasConnected
        THEN OneHeartbeatSent
        ELSE dtc.hb.result = "not connected" /\ dtc.hb.requests = <<>>

\* a heartbeat with metrics has been sent over a live connection
C20_Witness ==
    /\ dtc.hb.wasConnected
    /\ dtc.hb.result = "ok"
    /\ dtc.hb.status = "degraded"
    /\ dtc.hb.metrics = "numbers"
    /\ OneHeartbeatSent
    /\ "metrics" \in DOMAIN dtc.hb.requests[1].payload


MaxOf(S) == CHOOSE x \in S : \A y \in S : x >= y

\* C21: once heartbeats of a device have been received, in whatever order,
\* the device's last_seen is the largest timestamp among them.
C21_LastSeenIsLargestHeartbeat ==
    \A d \in DOMAIN Directory \cap DeviceNames :
        devices.received[d] # {} => Directory[d].LastSeen = MaxOf(devices.received[d])

\* the server holds a listening forward for the device of the Client
ServesClientDevice ==
    \E f \in ForwardIds :
        /\ fwd[f].pc = "accept"
        /\ fwd[f].listener = "open"
        /\ fwd[f].port \in inUse
        /\ conn[fwd[f].conn].deviceID = ClientDeviceID

\* C22: after OpenPortForward has returned nil on a connected client, the
\* server comes to hold an allocated port with an open listener for this
\* device.
C22_PortForwardReachesServer == (dtc.pf.result = "nil") ~> ServesClientDevice

\* C23: a SendCommand call for a device that has no recorded connection with
\* an open transport returns the not-connected error and leaves the
\* connection map and the PortManager as they were.
C23_NotConnectedWithoutLive ==
    [][cmdCall' # cmdCall =>
          LET call == cmdCall'[Len(cmdCall')]
          IN  ~call.live =>
                  /\ call.result = "not connected"
                  /\ connections' = connections
                  /\ inUse' = inUse]_vars

\* C24: a SendCommand call returns nil only if it wrote the command envelope
\* to the device as an exec request and read a response envelope whose
\* command_id is the envelope's id; the ids of two calls differ.
C24_SuccessOnlyAfterExecAndResponse ==
    /\ \A i \in DOMAIN cmdCall :
          cmdCall[i].result = "nil" =>
              /\ cmdCall[i].issued = <<[type |-> "exec", envelope |-> cmdCall[i].command]>>
              /\ cmdCall[i].response.CommandID = cmdCall[i].command.ID
    /\ \A i, j \in DOMAIN cmdCall :
          i # j => cmdCall[i].command.ID # cmdCall[j].command.ID

\* C25: a SendCommand call to a connected device that has read no reply of
\* the device has waited for one and returns timeout.
C25_TimeoutWithoutReply ==
    \A i \in DOMAIN cmdCall :
        (cmdCall[i].result # "not connected" /\ cmdCall[i].response = NoResponse) =>
            /\ cmdCall[i].waited
            /\ cmdCall[i].result = "timeout"

\* C26: of the bytes an external client wrote to a forwarded connection, the
\* device has been sent a prefix, in order and without duplicates, and once
\* the connection has ended over a transport that is still open it has been
\* sent all of them.
C26_BytesReachDevice ==
    \A k \in FwdConnIds :
        /\ fconn[k].toDevice \o fconn[k].buf = fconn[k].written
        /\ (fconn[k].pc = "done" /\ ~conn[fwd[fconn[k].fwd].conn].closed) =>
               fconn[k].toDevice = fconn[k].written

\* C28: a port that was reported to the device as granted is in use and has
\* an open listener of a forwardPort goroutine of that connection, as long as
\* the connection's context is not cancelled.
C28_SuccessMeansServing ==
    \A c \in ConnIds :
        \A p \in conn[c].granted :
            ~HCtxDone(c) =>
                /\ p \in inUse
                /\ \E f \in ForwardIds :
                      /\ fwd[f].conn = c
                      /\ fwd[f].port = p
                      /\ fwd[f].listener = "open"

\* C29: no step that answers a well-formed tcpip-forward request when no
\* port is free is also the step that answers a malformed tcpip-forward
\* request: the two replies differ.
C29_ExhaustionReplyDistinct ==
    [][\A c \in ConnIds : \A r, m \in Requests :
          (/\ ~AllocatePort(inUse).ok
           /\ TcpipForwardAllocate(c, r)
           /\ m.type = "tcpip-forward" /\ ~m.wellformed)
          => ~HandleRejectedRequest(c, m)]_vars

\* C30: a forwarded connection that has ended has released its local socket,
\* and a forwarded connection whose Live Connection is cancelled while its
\* copy tasks run comes to its end.
C30_CopyEndsOnCancel ==
    /\ [](\A k \in FwdConnIds : fconn[k].pc = "done" => ~fconn[k].localOpen)
    /\ \A k \in FwdConnIds :
          (fconn[k].pc = "copy" /\ HCtxDone(fwd[fconn[k].fwd].conn)) ~> (fconn[k].pc = "done")


\* in this step the server itself closes the open transport of connection c,
\* as the superseded entry of the map or as an entry closed by Shutdown
ServerClosesEntry(c) ==
    /\ ~conn[c].closed
    /\ conn'[c].closed
    /\ conn'[c].cause \in {"superseded", "shutdown"}

\* C31: no step in which the server closes the connection of a map entry
\* leaves s.mu held: the close is made with the mutex free.
C31_NoCloseUnderMapMutex ==
    [][\A c \in ConnIds : ServerClosesEntry(c) => mu' = "free"]_vars

\* C35: once the Shutdown call has returned, the connection map does not
\* change and no further connection is accepted.
C35_NothingAfterShutdown ==
    [][sdPc[Min(ShutdownIds)] = "returned" =>
          /\ connections' = connections
          /\ \A c \in ConnIds : conn[c].pc = "free" => conn'[c].pc = "free"]_vars

\* the ports allocated for requests of connection c and not released since
HeldBy(c) == {fwd[f].port : f \in {g \in ForwardIds : fwd[g].conn = c /\ Holding(g)}}

\* C40: the ForwardPorts of every connection record holds only ports that
\* were allocated for requests of that connection and are still in use, and
\* every such port whose request has been answered is recorded there.
C40_ForwardPortsAreOwnHeldPorts ==
    \A c \in ConnIds :
        /\ DOMAIN conn[c].ForwardPorts \subseteq (HeldBy(c) \cap inUse)
        /\ conn[c].reqPc \in {"idle", "done"} => HeldBy(c) \subseteq DOMAIN conn[c].ForwardPorts


\* Device.SSHPort of the device records, the port assigned for a device's
\* tunnel: devB keeps the value written at registration, devA's was set by
\* an update of the record, devM has none
SSHPort == [d \in DOMAIN Directory |-> Directory[d].SSHPort]

\* C34: for a device whose record has an assigned port, a tcpip-forward for
\* its SSH service (bind port 22) is granted on that port only.
C34_GrantOnlyOnAssignedPort ==
    \A c \in ConnIds :
        (conn[c].deviceID \in DOMAIN SSHPort /\ SSHPort[conn[c].deviceID] # 0) =>
            conn[c].granted \subseteq {SSHPort[conn[c].deviceID]}


\* the client is inside a call that waits for the peer: ssh.Dial of doConnect,
\* SendRequest of the keepalive with wantReply, or c.client.Dial of a
\* forwarded connection
InNetworkCall == dtc.loopPc = "dial" \/ dtc.kaPc = "sent" \/ dtc.pfc = "dialing"

\* C32: while the client waits for the peer in a dial or a keepalive request,
\* c.mu is free.
C32_NoNetworkCallUnderClientMutex == InNetworkCall => dtc.mu = "free"

\* the handleConnection goroutines alive: those at their select and the one
\* inside a keepalive request
KeepaliveTasks == dtc.handlers + (IF dtc.kaPc = "sent" THEN 1 ELSE 0)

\* C38: while the client has not been cancelled, at most one handleConnection
\* goroutine is alive.
C38_AtMostOneKeepaliveTask == ~dtc.ctxDone => KeepaliveTasks <= 1

\* C39: with c.mu free, c.connected is true exactly when c.client is set.
C39_ConnectedIffClientHeld ==
    dtc.mu = "free" => (dtc.connected <=> dtc.client # "nil")

\* the client itself closed its connection after a keepalive error and the
\* mutex is free again
C39_Witness ==
    /\ dtc.mu = "free"
    /\ dtc.lost
    /\ dtc.client = "nil"
    /\ ~dtc.connected


\* C36: once Disconnect has returned the client is not connected and holds
\* no connection.
C36_DisconnectedAfterDisconnect ==
    dtc.discPc = "returned" => (~dtc.connected /\ dtc.client = "nil")

\* the connectionLoop goroutines started and not returned
RunningLoops == {l \in LoopIds : LoopOf(dtc, l).pc \notin {"none", "returned", "crashed"}}

\* C37: at most one connectionLoop goroutine runs and c.done is closed at
\* most once.
C37_OneLoopOneClose ==
    /\ Cardinality(RunningLoops) <= 1
    /\ dtc.doneCloses <= 1


\* C33: a NewServer call changes the host key file only when there was none;
\* a file that exists is left as it is, and the call succeeds with the key in
\* it or, when the file cannot be read or parsed, fails; all servers
\* constructed have the same host key.
C33_HostKeyGeneratedOnlyWhenAbsent ==
    /\ [][hostKey'.calls # hostKey.calls =>
             /\ hostKey.file.exists => hostKey'.file = hostKey.file
             /\ (hostKey.file.exists /\ hostKey.file.readable /\ hostKey.file.content = "pem") =>
                    (hostKey'.result = "nil" /\ hostKey.file.key \in hostKey'.used)
             /\ (hostKey.file.exists /\ ~(hostKey.file.readable /\ hostKey.file.content = "pem")) =>
                    (hostKey'.result # "nil" /\ hostKey'.used = hostKey.used)
             /\ hostKey'.generated # hostKey.generated => ~hostKey.file.exists]_vars
    /\ [](Cardinality(hostKey.used) <= 1)

\* the third or a later start loaded the key that an earlier start generated
\* and wrote, and it is the only host key any server was constructed with
C33_Witness ==
    /\ hostKey.generated = 1
    /\ hostKey.calls >= 3
    /\ hostKey.before = KeyFile(1)
    /\ hostKey.result = "nil"
    /\ hostKey.used = {1}


====
